---------------------------- MODULE Spec2Model ----------------------------
(***************************************************************************)
(* Script Snips API: the controller handlers of scriptController.ts, the   *)
(* central errorHandler and the script_snips table they read and write.    *)
(*                                                                         *)
(* A JavaScript string is a sequence of one-character strings, so that     *)
(* parseInt, toLowerCase, split, trim and the ILIKE pattern match are      *)
(* computed character by character as the code and the store compute them. *)
(* A query parameter (req.query.x) is absent, a string, or an array of     *)
(* strings (a repeated parameter): the handlers' `as string` is a compile  *)
(* time cast only.                                                         *)
(***************************************************************************)
EXTENDS Integers, Sequences, FiniteSets, TLC

VARIABLES
    store,      \* the rows of table script_snips
    nextId,     \* number of ids handed out so far (cuid() never repeats)
    clock,      \* CURRENT_TIMESTAMP of the latest insert
    pc,         \* where the read handler in flight is suspended ("idle": none)
    local,      \* the local variables of the read handler in flight
    resp,       \* outcome of the latest completed handler of the observed client
    hits        \* createScriptLimiter's count of the observed client's POSTs
                \* in the current window

vars == <<store, nextId, clock, pc, local, resp, hits>>

-----------------------------------------------------------------------------
(* Bounds of the model *)

\* at most this many rows are ever inserted
MaxIds == 2

-----------------------------------------------------------------------------
(* Strings *)

Str(s) == [k |-> "str", v |-> s]
Arr(a) == [k |-> "arr", items |-> a]
Absent == [k |-> "absent"]

UpperCase == <<"A","B","C","D","E","F","G","H","I","J","K","L","M",
               "N","O","P","Q","R","S","T","U","V","W","X","Y","Z">>
LowerCase == <<"a","b","c","d","e","f","g","h","i","j","k","l","m",
               "n","o","p","q","r","s","t","u","v","w","x","y","z">>
Digits == <<"0","1","2","3","4","5","6","7","8","9">>

\* the characters the model uses, in code-point order
CodePoints == <<" ", "%", "+", ",", "-", ".">> \o Digits \o UpperCase
                  \o <<"\\", "_">> \o LowerCase

IndexIn(c, seq) == CHOOSE i \in 1..Len(seq) : seq[i] = c
InSeq(c, seq) == \E i \in 1..Len(seq) : seq[i] = c

\* one character of String.prototype.toLowerCase / SQL LOWER()
LowerChar(c) == IF InSeq(c, UpperCase) THEN LowerCase[IndexIn(c, UpperCase)] ELSE c

\* String.prototype.toLowerCase on a string; SQL LOWER() on a text
ToLower(s) == [i \in 1..Len(s) |-> LowerChar(s[i])]

IsDigit(c) == InSeq(c, Digits)
DigitVal(c) == IndexIn(c, Digits) - 1
IsSpace(c) == c = " "

RECURSIVE Join(_, _)
\* Array.prototype.join(sep)
Join(a, sep) ==
    IF Len(a) = 0 THEN << >>
    ELSE IF Len(a) = 1 THEN a[1]
    ELSE a[1] \o sep \o Join(Tail(a), sep)

\* JavaScript truthiness of a query parameter value
Truthy(p) ==
    CASE p.k = "absent" -> FALSE
      [] p.k = "str" -> Len(p.v) > 0
      [] p.k = "arr" -> TRUE

\* String(x) of a query parameter value that is not undefined
ToStr(p) == IF p.k = "arr" THEN Join(p.items, <<",">>) ELSE p.v

RECURSIVE SkipSpaces(_)
SkipSpaces(s) == IF Len(s) > 0 /\ IsSpace(Head(s)) THEN SkipSpaces(Tail(s)) ELSE s

RECURSIVE DigitPrefix(_)
\* the longest prefix of s made of decimal digits
DigitPrefix(s) ==
    IF Len(s) > 0 /\ IsDigit(Head(s)) THEN <<Head(s)>> \o DigitPrefix(Tail(s)) ELSE << >>

RECURSIVE DigitsValue(_, _)
DigitsValue(ds, acc) ==
    IF Len(ds) = 0 THEN acc ELSE DigitsValue(Tail(ds), 10 * acc + DigitVal(Head(ds)))

NaN == [nan |-> TRUE, n |-> 0]
Num(n) == [nan |-> FALSE, n |-> n]

\* parseInt(s, 10): leading white space is skipped, one sign is read, then the
\* longest run of digits; whatever follows is ignored; no digit gives NaN
parseInt(s) ==
    LET t == SkipSpaces(s)
        neg == Len(t) > 0 /\ Head(t) = "-"
        u == IF Len(t) > 0 /\ Head(t) \in {"-", "+"} THEN Tail(t) ELSE t
        ds == DigitPrefix(u)
    IN  IF Len(ds) = 0 THEN NaN
        ELSE Num(IF neg THEN 0 - DigitsValue(ds, 0) ELSE DigitsValue(ds, 0))

RECURSIVE TrimLeft(_)
TrimLeft(s) == IF Len(s) > 0 /\ IsSpace(Head(s)) THEN TrimLeft(Tail(s)) ELSE s

RECURSIVE TrimRight(_)
TrimRight(s) ==
    IF Len(s) > 0 /\ IsSpace(s[Len(s)]) THEN TrimRight(SubSeq(s, 1, Len(s) - 1)) ELSE s

\* String.prototype.trim
Trim(s) == TrimRight(TrimLeft(s))

RECURSIVE SplitAcc(_, _, _)
SplitAcc(s, sep, cur) ==
    IF Len(s) = 0 THEN <<cur>>
    ELSE IF Head(s) = sep THEN <<cur>> \o SplitAcc(Tail(s), sep, << >>)
    ELSE SplitAcc(Tail(s), sep, Append(cur, Head(s)))

\* String.prototype.split(sep) for a one-character separator
Split(s, sep) == SplitAcc(s, sep, << >>)

RECURSIVE StrLess(_, _)
\* s sorts strictly before t, character by character in code-point order
StrLess(s, t) ==
    IF Len(t) = 0 THEN FALSE
    ELSE IF Len(s) = 0 THEN TRUE
    ELSE IF Head(s) = Head(t) THEN StrLess(Tail(s), Tail(t))
    ELSE IndexIn(Head(s), CodePoints) < IndexIn(Head(t), CodePoints)

RECURSIVE Like(_, _)
\* text ILIKE pattern: % matches any run of characters, _ any one character,
\* a backslash makes the next pattern character literal; letters match
\* without regard to case
Like(t, p) ==
    IF Len(p) = 0 THEN Len(t) = 0
    ELSE IF Head(p) = "%" THEN Like(t, Tail(p)) \/ (Len(t) > 0 /\ Like(Tail(t), p))
    ELSE IF Head(p) = "_" THEN Len(t) > 0 /\ Like(Tail(t), Tail(p))
    ELSE IF Head(p) = "\\" /\ Len(p) > 1
         THEN Len(t) > 0 /\ LowerChar(Head(t)) = LowerChar(p[2])
              /\ Like(Tail(t), Tail(Tail(p)))
    ELSE Len(t) > 0 /\ LowerChar(Head(t)) = LowerChar(Head(p)) /\ Like(Tail(t), Tail(p))

-----------------------------------------------------------------------------
(* Literal strings of the code *)

s_title == <<"t","i","t","l","e">>
s_createdAt == <<"c","r","e","a","t","e","d","A","t">>
s_asc == <<"a","s","c">>
s_desc == <<"d","e","s","c">>
s_Untitled == <<"U","n","t","i","t","l","e","d">>

allowedSortFields == {s_title, s_createdAt}
defaultSortBy == s_createdAt
defaultSortOrder == s_desc
defaultPage == <<"1">>
defaultLimit == <<"1","0">>
defaultCount == 3

-----------------------------------------------------------------------------
(* Errors and the central error handler *)

NoErr == [type |-> "none", message |-> "", statusCode |-> 0, code |-> "", issues |-> << >>]

\* new AppError(message, statusCode)
AppError(message, statusCode) ==
    [type |-> "AppError", message |-> message, statusCode |-> statusCode,
     code |-> "", issues |-> << >>]

\* new Error(message), as the store client rejects with when a query fails
PlainError(message) ==
    [type |-> "Error", message |-> message, statusCode |-> 0, code |-> "", issues |-> << >>]

\* TypeError thrown by the runtime (x.toLowerCase / x.split is not a function)
TypeError(message) ==
    [type |-> "TypeError", message |-> message, statusCode |-> 0, code |-> "",
     issues |-> << >>]

\* new ZodError(issues), thrown by schema.parse
ZodError(issues) ==
    [type |-> "ZodError", message |-> "", statusCode |-> 0, code |-> "", issues |-> issues]

\* Prisma.PrismaClientKnownRequestError with the given code
PrismaKnownError(code, message) ==
    [type |-> "PrismaClientKnownRequestError", message |-> message, statusCode |-> 0,
     code |-> code, issues |-> << >>]

\* body-parser's SyntaxError for a malformed JSON body (status 400, body set)
JsonSyntaxError(message) ==
    [type |-> "SyntaxError", message |-> message, statusCode |-> 400, code |-> "body",
     issues |-> << >>]

\* a value that is not an Error at all (a thrown string, null, undefined)
NonError == [type |-> "nonError", message |-> "", statusCode |-> 0, code |-> "",
             issues |-> << >>]

\* the errors a failing store call rejects with
DbErrors == {PlainError("Database connection lost")}

\* String(segment), as Array.prototype.join applies it to a path segment
SegmentText(seg) == IF seg.seg = "key" THEN seg.name ELSE ToString(seg.n)

\* path.join('.')
RECURSIVE JoinPath(_)
JoinPath(path) ==
    IF Len(path) = 0 THEN ""
    ELSE IF Len(path) = 1 THEN SegmentText(path[1])
    ELSE SegmentText(path[1]) \o "." \o JoinPath(Tail(path))

\* formatZodError: each issue's path joined with '.', its message kept
formatZodError(err) ==
    [i \in 1..Len(err.issues) |->
        [path |-> JoinPath(err.issues[i].path), message |-> err.issues[i].message]]

\* variant: errorHandler without the AppError branch
errorHandler_NoAppError(err) ==
    CASE err.type = "SyntaxError" /\ err.statusCode = 400 /\ err.code = "body" ->
            [status |-> 400,
             body |-> [error |-> "Invalid JSON payload received", details |-> err.message]]
      [] err.type = "ZodError" ->
            [status |-> 400,
             body |-> [error |-> "Invalid input data", details |-> formatZodError(err)]]
      [] err.type = "PrismaClientKnownRequestError" ->
            IF err.code = "P2025"
            THEN [status |-> 404, body |-> [error |-> "Resource not found"]]
            ELSE [status |-> 500,
                  body |-> [error |-> "Database request failed", details |-> err.message]]
      [] err.type \in {"AppError", "Error", "TypeError", "SyntaxError"} ->
            [status |-> 500,
             body |-> [error |-> IF err.message = "" THEN "An error occurred"
                                 ELSE err.message]]
      [] OTHER ->
            [status |-> 500,
             body |-> [error |-> "An unexpected internal server error occurred"]]

\* variant: errorHandler without the switch on the Prisma error's code
errorHandler_NoP2025(err) ==
    CASE err.type = "SyntaxError" /\ err.statusCode = 400 /\ err.code = "body" ->
            [status |-> 400,
             body |-> [error |-> "Invalid JSON payload received", details |-> err.message]]
      [] err.type = "ZodError" ->
            [status |-> 400,
             body |-> [error |-> "Invalid input data", details |-> formatZodError(err)]]
      [] err.type = "PrismaClientKnownRequestError" ->
            [status |-> 500,
             body |-> [error |-> "Database request failed", details |-> err.message]]
      [] err.type = "AppError" ->
            [status |-> err.statusCode, body |-> [error |-> err.message]]
      [] err.type \in {"Error", "TypeError", "SyntaxError"} ->
            [status |-> 500,
             body |-> [error |-> IF err.message = "" THEN "An error occurred"
                                 ELSE err.message]]
      [] OTHER ->
            [status |-> 500,
             body |-> [error |-> "An unexpected internal server error occurred"]]

\* errorHandler(err, req, res, next): the status and body it sends
errorHandler(err) ==
    CASE err.type = "SyntaxError" /\ err.statusCode = 400 /\ err.code = "body" ->
            [status |-> 400,
             body |-> [error |-> "Invalid JSON payload received", details |-> err.message]]
      [] err.type = "ZodError" ->
            [status |-> 400,
             body |-> [error |-> "Invalid input data", details |-> formatZodError(err)]]
      [] err.type = "PrismaClientKnownRequestError" ->
            IF err.code = "P2025"
            THEN [status |-> 404, body |-> [error |-> "Resource not found"]]
            ELSE [status |-> 500,
                  body |-> [error |-> "Database request failed", details |-> err.message]]
      [] err.type = "AppError" ->
            [status |-> err.statusCode, body |-> [error |-> err.message]]
      [] err.type \in {"Error", "TypeError", "SyntaxError"} ->
            [status |-> 500,
             body |-> [error |-> IF err.message = "" THEN "An error occurred"
                                 ELSE err.message]]
      [] OTHER ->
            [status |-> 500,
             body |-> [error |-> "An unexpected internal server error occurred"]]

-----------------------------------------------------------------------------
(* Outcomes of a handler *)

NoGhost == [none |-> TRUE]

\* via = "res": the handler sent the response itself; "next": it called
\* next(err) and errorHandler sent the response; "throw": an exception left the
\* handler and nothing was sent; calls: the store client methods it invoked
Outcome(op, req, via, err, status, body, calls, ghost) ==
    [op |-> op, req |-> req, via |-> via, err |-> err, status |-> status,
     body |-> body, calls |-> calls, ghost |-> ghost]

NoResp == Outcome("none", << >>, "none", NoErr, 0, << >>, << >>, NoGhost)

\* res.status(status).json(body)
Sent(op, req, status, body, calls, ghost) ==
    Outcome(op, req, "res", NoErr, status, body, calls, ghost)

\* next(err), answered by errorHandler
Passed(op, req, err, calls, ghost) ==
    Outcome(op, req, "next", err, errorHandler(err).status, errorHandler(err).body,
            calls, ghost)

\* an exception thrown outside the handler's try block
Thrown(op, req, err, calls) ==
    Outcome(op, req, "throw", err, 0, << >>, calls, NoGhost)

NoLocal == [op |-> "none"]

-----------------------------------------------------------------------------
(* The table script_snips *)

Max(a, b) == IF a > b THEN a ELSE b
Min(a, b) == IF a < b THEN a ELSE b

\* cuid() of the n-th insert
IdOf(n) == <<Digits[n + 1]>>

\* a row of script_snips
Row(id, title, characters, lines, createdAt) ==
    [id |-> id, title |-> title, characters |-> characters, lines |-> lines,
     createdAt |-> createdAt]

\* all orders in which the rows of the set S can be listed
Perms(S) ==
    {f \in [1..Cardinality(S) -> S] :
        \A i, j \in 1..Cardinality(S) : i # j => f[i] # f[j]}

\* variant: ORDER BY "title" without LOWER, titles compared by code point
KeyLeq_CaseSensitive(a, b, sortBy) ==
    IF sortBy = s_title
    THEN ~StrLess(b.title, a.title)
    ELSE a.createdAt <= b.createdAt

\* ORDER BY LOWER("title") / ORDER BY "createdAt": a sorts no later than b
KeyLeq(a, b, sortBy) ==
    IF sortBy = s_title
    THEN ~StrLess(ToLower(b.title), ToLower(a.title))
    ELSE a.createdAt <= b.createdAt

\* ORDER BY <key> <sortOrder>: rows with equal keys come in any order
OrderBy(S, sortBy, sortOrder) ==
    {f \in Perms(S) :
        \A i \in 1..(Cardinality(S) - 1) :
            IF sortOrder = s_asc THEN KeyLeq(f[i], f[i + 1], sortBy)
            ELSE KeyLeq(f[i + 1], f[i], sortBy)}

\* LIMIT limit OFFSET skip
LimitOffset(rows, limit, skip) == SubSeq(rows, skip + 1, Min(skip + limit, Len(rows)))

\* WHERE title ILIKE $1 OR EXISTS (.. unnest(characters) .. ILIKE $1)
\*       OR EXISTS (.. jsonb_array_elements(lines) .. line->>'dialogue' ILIKE $1)
WhereSearch(row, searchTerm) ==
    \/ Like(row.title, searchTerm)
    \/ \E i \in 1..Len(row.characters) : Like(row.characters[i], searchTerm)
    \/ \E i \in 1..Len(row.lines) : Like(row.lines[i].dialogue, searchTerm)

-----------------------------------------------------------------------------
(* getAllScripts *)

ListQuery(page, limit, search, sortBy, sortOrder) ==
    [page |-> page, limit |-> limit, search |-> search, sortBy |-> sortBy,
     sortOrder |-> sortOrder]

\* parseInt(req.query.page as string || '1', 10)
pageOf(q) == parseInt(IF Truthy(q.page) THEN ToStr(q.page) ELSE defaultPage)

\* parseInt(req.query.limit as string || '10', 10)
limitOf(q) == parseInt(IF Truthy(q.limit) THEN ToStr(q.limit) ELSE defaultLimit)

\* search ? `%${search}%` : undefined
hasSearchTerm(q) == Truthy(q.search)
searchTermOf(q) == <<"%">> \o ToStr(q.search) \o <<"%">>

\* variant: sortBy taken as sent, without the allow-list
sortByOf_NoAllowList(q) ==
    IF Truthy(q.sortBy) /\ q.sortBy.k = "str" THEN q.sortBy.v ELSE defaultSortBy

\* sortBy after the allow-list fallback; an array is never === a string
sortByOf(q) ==
    IF Truthy(q.sortBy) /\ q.sortBy.k = "str" /\ q.sortBy.v \in allowedSortFields
    THEN q.sortBy.v ELSE defaultSortBy

\* (req.query.sortOrder as string || defaultSortOrder).toLowerCase() throws
\* when the value is an array
sortOrderThrows(q) == q.sortOrder.k = "arr"

\* variant: sortOrder compared as sent, without toLowerCase()
sortOrderOf_NoLowerCase(q) ==
    LET sent == IF Truthy(q.sortOrder) THEN q.sortOrder.v ELSE defaultSortOrder
    IN  IF sent # s_asc /\ sent # s_desc THEN defaultSortOrder ELSE sent

\* sortOrder after lower-casing and the fallback to the default
sortOrderOf(q) ==
    LET lowered == IF Truthy(q.sortOrder) THEN ToLower(q.sortOrder.v) ELSE defaultSortOrder
    IN  IF lowered # s_asc /\ lowered # s_desc THEN defaultSortOrder ELSE lowered

\* isNaN(page) || page < 1 || isNaN(limit) || limit < 1
paginationInvalid(page, limit) == page.nan \/ page.n < 1 \/ limit.nan \/ limit.n < 1

\* variant: the offset of a 0-based page number
skipOf_PageTimesLimit(page, limit) == page * limit

\* skip = (page - 1) * limit
skipOf(page, limit) == (page - 1) * limit

\* the rows the dynamic WHERE clause of the request selects
whereClause(q, rows) ==
    IF hasSearchTerm(q) THEN {r \in rows : WhereSearch(r, searchTermOf(q))} ELSE rows

\* variant: Math.floor(totalScripts / limit)
totalPagesOf_Floor(totalScripts, limit) == totalScripts \div limit

\* Math.ceil(totalScripts / limit)
totalPagesOf(totalScripts, limit) == (totalScripts + limit - 1) \div limit

ListCalls == <<"$queryRaw", "$queryRaw", "$transaction">>

\* A query built with Prisma.sql is a list of pieces: the literal text of
\* the template as written in the source (Sql), text spliced in with
\* Prisma.raw (RawSql), and values sent to the store apart from the text, as
\* bound parameters (TextParam, IntParam)
Sql(text) == [kind |-> "sql", text |-> text]
RawSql(chars) == [kind |-> "raw", chars |-> chars]
TextParam(chars) == [kind |-> "textParam", chars |-> chars]
IntParam(n) == [kind |-> "intParam", n |-> n]

\* whereClause: WHERE 1=1, or the three ILIKE tests on ${searchTerm}
whereClauseSql(q) ==
    IF hasSearchTerm(q)
    THEN << Sql("WHERE title ILIKE"), TextParam(searchTermOf(q)),
            Sql("OR EXISTS (SELECT 1 FROM unnest(characters) AS char WHERE char ILIKE"),
            TextParam(searchTermOf(q)),
            Sql(") OR EXISTS (SELECT 1 FROM jsonb_array_elements(lines) AS line WHERE line->>'dialogue' ILIKE"),
            TextParam(searchTermOf(q)), Sql(")") >>
    ELSE << Sql("WHERE 1=1") >>

\* variant: the direction spliced in as the client sent it
orderByRaw_AsSent(q) ==
    IF sortByOf(q) = s_title
    THEN << Sql("ORDER BY LOWER(\"title\")"),
            RawSql(IF Truthy(q.sortOrder) THEN ToStr(q.sortOrder) ELSE defaultSortOrder) >>
    ELSE << Sql("ORDER BY \"createdAt\""),
            RawSql(IF Truthy(q.sortOrder) THEN ToStr(q.sortOrder) ELSE defaultSortOrder) >>

\* orderByRaw: ORDER BY LOWER("title") | "createdAt", then Prisma.raw(sortOrder)
orderByRaw(q) ==
    IF sortByOf(q) = s_title
    THEN << Sql("ORDER BY LOWER(\"title\")"), RawSql(sortOrderOf(q)) >>
    ELSE << Sql("ORDER BY \"createdAt\""), RawSql(sortOrderOf(q)) >>

\* dataQuery
dataQuerySql(q) ==
    << Sql("SELECT * FROM script_snips") >> \o whereClauseSql(q) \o orderByRaw(q)
    \o << Sql("LIMIT"), IntParam(limitOf(q).n), Sql("OFFSET"),
          IntParam(skipOf(pageOf(q).n, limitOf(q).n)), Sql(";") >>

\* countQuery
countQuerySql(q) ==
    << Sql("SELECT COUNT(*) FROM script_snips") >> \o whereClauseSql(q) \o << Sql(";") >>

\* the two statements handed to prisma.$transaction
ListSql(q) == << dataQuerySql(q), countQuerySql(q) >>

\* the handler up to the first statement of the transaction: the parameters
\* are read and validated, both queries are built and the page query runs
GetAllScripts(q) ==
    /\ pc = "idle"
    /\ UNCHANGED <<store, nextId, clock>>
    /\ IF sortOrderThrows(q)
       THEN /\ resp' = Thrown("getAllScripts", q,
                              TypeError("toLowerCase is not a function"), << >>)
            /\ UNCHANGED <<pc, local>>
       ELSE IF paginationInvalid(pageOf(q), limitOf(q))
       THEN /\ resp' = Passed("getAllScripts", q,
                   AppError("Invalid pagination parameters. Page and limit must be positive integers.", 400),
                   << >>, NoGhost)
            /\ UNCHANGED <<pc, local>>
       ELSE \/ \E e \in DbErrors :
                /\ resp' = Passed("getAllScripts", q, e, ListCalls, [sql |-> ListSql(q)])
                /\ UNCHANGED <<pc, local>>
            \/ \E ordered \in OrderBy(whereClause(q, store), sortByOf(q), sortOrderOf(q)) :
                /\ pc' = "listCount"
                /\ local' = [op |-> "getAllScripts", req |-> q,
                             scripts |-> LimitOffset(ordered, limitOf(q).n,
                                                     skipOf(pageOf(q).n, limitOf(q).n)),
                             ordered |-> ordered, dataStore |-> store,
                             sql |-> ListSql(q)]
                /\ resp' = NoResp

\* variant: the count query without the WHERE clause of the page query
GetAllScriptsCount_NoWhere ==
    /\ pc = "listCount"
    /\ UNCHANGED <<store, nextId, clock>>
    /\ pc' = "idle"
    /\ local' = NoLocal
    /\ \/ \E e \in DbErrors :
            resp' = Passed("getAllScripts", local.req, e, ListCalls, [sql |-> local.sql])
       \/ LET q == local.req
              totalScripts == Cardinality(store)
          IN  resp' = Sent("getAllScripts", q, 200,
                  [data |-> local.scripts,
                   pagination |-> [totalItems |-> totalScripts,
                                   currentPage |-> pageOf(q).n,
                                   totalPages |-> totalPagesOf(totalScripts, limitOf(q).n),
                                   pageSize |-> limitOf(q).n,
                                   sortBy |-> sortByOf(q),
                                   sortOrder |-> sortOrderOf(q)]],
                  ListCalls,
                  [ordered |-> local.ordered, dataStore |-> local.dataStore,
                   countStore |-> store, sql |-> local.sql])

\* the count query of the transaction, and the response
GetAllScriptsCount ==
    /\ pc = "listCount"
    /\ UNCHANGED <<store, nextId, clock>>
    /\ pc' = "idle"
    /\ local' = NoLocal
    /\ \/ \E e \in DbErrors :
            resp' = Passed("getAllScripts", local.req, e, ListCalls, [sql |-> local.sql])
       \/ LET q == local.req
              totalScripts == Cardinality(whereClause(q, store))
          IN  resp' = Sent("getAllScripts", q, 200,
                  [data |-> local.scripts,
                   pagination |-> [totalItems |-> totalScripts,
                                   currentPage |-> pageOf(q).n,
                                   totalPages |-> totalPagesOf(totalScripts, limitOf(q).n),
                                   pageSize |-> limitOf(q).n,
                                   sortBy |-> sortByOf(q),
                                   sortOrder |-> sortOrderOf(q)]],
                  ListCalls,
                  [ordered |-> local.ordered, dataStore |-> local.dataStore,
                   countStore |-> store, sql |-> local.sql])

-----------------------------------------------------------------------------
(* Request bodies and the zod schemas *)

\* a JSON body is a record of the keys it holds; a value is Str(..), Arr(..)
\* or an object (a record without the field k)
Has(body, key) == key \in DOMAIN body
IsStr(v) == "k" \in DOMAIN v /\ v.k = "str"
IsArr(v) == "k" \in DOMAIN v /\ v.k = "arr"
IsObj(v) == "k" \notin DOMAIN v

TypeName(v) == IF IsStr(v) THEN "string" ELSE IF IsArr(v) THEN "array" ELSE "object"

\* the segments of an issue's path: an object key or an array index
Key(name) == [seg |-> "key", name |-> name, n |-> 0]
Index(i) == [seg |-> "index", name |-> "", n |-> i]

Issue(path, message) == [path |-> path, message |-> message]

ExpectedString(v) ==
    IF TypeName(v) = "array" THEN "Expected string, received array"
    ELSE "Expected string, received object"
ExpectedArray(v) ==
    IF TypeName(v) = "string" THEN "Expected array, received string"
    ELSE "Expected array, received object"
ExpectedObject(v) ==
    IF TypeName(v) = "string" THEN "Expected object, received string"
    ELSE "Expected object, received array"

RECURSIVE Flatten(_)
Flatten(ss) == IF Len(ss) = 0 THEN << >> ELSE Head(ss) \o Flatten(Tail(ss))

\* z.string().min(1, message) at the given path
NonEmptyStringIssues(obj, key, path, message) ==
    IF ~Has(obj, key) THEN <<Issue(path, "Required")>>
    ELSE IF ~IsStr(obj[key]) THEN <<Issue(path, ExpectedString(obj[key]))>>
    ELSE IF Len(obj[key].v) < 1 THEN <<Issue(path, message)>>
    ELSE << >>

\* lineSchema at lines[i]
lineSchemaIssues(line, i) ==
    IF ~IsObj(line) THEN <<Issue(<<Key("lines"), Index(i)>>, ExpectedObject(line))>>
    ELSE NonEmptyStringIssues(line, "character", <<Key("lines"), Index(i), Key("character")>>,
                              "Character name cannot be empty")
         \o NonEmptyStringIssues(line, "dialogue", <<Key("lines"), Index(i), Key("dialogue")>>,
                                 "Dialogue cannot be empty")

\* title: z.string().optional()
titleIssues(body) ==
    IF Has(body, "title") /\ ~IsStr(body.title)
    THEN <<Issue(<<Key("title")>>, ExpectedString(body.title))>> ELSE << >>

\* z.array(z.string().min(1, m)) with at least `least` entries
charactersIssues(body, least, required, emptyMessage) ==
    IF ~Has(body, "characters")
    THEN IF required THEN <<Issue(<<Key("characters")>>, "Required")>> ELSE << >>
    ELSE IF ~IsArr(body.characters)
    THEN <<Issue(<<Key("characters")>>, ExpectedArray(body.characters))>>
    ELSE LET a == body.characters.items
         IN  Flatten([i \in 1..Len(a) |->
                        IF ~IsStr(a[i])
                        THEN <<Issue(<<Key("characters"), Index(i - 1)>>, ExpectedString(a[i]))>>
                        ELSE IF Len(a[i].v) < 1
                        THEN <<Issue(<<Key("characters"), Index(i - 1)>>, emptyMessage)>>
                        ELSE << >>])
             \o (IF Len(a) < least
                 THEN <<Issue(<<Key("characters")>>, "At least one character is required")>>
                 ELSE << >>)

\* z.array(lineSchema) with at least `least` entries
linesIssues(body, least, required) ==
    IF ~Has(body, "lines")
    THEN IF required THEN <<Issue(<<Key("lines")>>, "Required")>> ELSE << >>
    ELSE IF ~IsArr(body.lines)
    THEN <<Issue(<<Key("lines")>>, ExpectedArray(body.lines))>>
    ELSE LET a == body.lines.items
         IN  Flatten([i \in 1..Len(a) |-> lineSchemaIssues(a[i], i - 1)])
             \o (IF Len(a) < least
                 THEN <<Issue(<<Key("lines")>>, "At least one line is required")>>
                 ELSE << >>)

\* the strings of a validated array of strings
StringsOf(arr) == [i \in 1..Len(arr.items) |-> arr.items[i].v]

\* the {character, dialogue} objects of a validated array of lines
LinesOf(arr) ==
    [i \in 1..Len(arr.items) |->
        [character |-> arr.items[i].character.v, dialogue |-> arr.items[i].dialogue.v]]

\* createScriptSchema.parse(body): the issues it throws with (none: it passes)
createScriptSchemaIssues(body) ==
    titleIssues(body)
    \o charactersIssues(body, 1, TRUE, "Character name cannot be empty")
    \o linesIssues(body, 1, TRUE)

\* the keys of the object updateScriptSchema's inner schema returns: the
\* known keys the body holds (unknown keys are stripped)
updateKeys(body) == DOMAIN body \cap {"title", "characters", "lines"}

\* variant: updateScriptSchema without the refinement
updateScriptSchemaIssues_NoRefine(body) ==
    titleIssues(body)
    \o charactersIssues(body, 0, FALSE, "String must contain at least 1 character(s)")
    \o linesIssues(body, 0, FALSE)

\* updateScriptSchema.parse(body): field issues first, the refinement
\* (at least one key) only when the fields are valid
updateScriptSchemaIssues(body) ==
    LET fields == titleIssues(body)
                  \o charactersIssues(body, 0, FALSE, "String must contain at least 1 character(s)")
                  \o linesIssues(body, 0, FALSE)
    IN  IF Len(fields) > 0 THEN fields
        ELSE IF updateKeys(body) = {}
        THEN <<Issue(<< >>, "At least one field must be provided for update")>>
        ELSE << >>

-----------------------------------------------------------------------------
(* createScript, updateScript, deleteScript *)

\* the outcome of a write handler reaches the observed client unless it has a
\* read in flight: the write is then another client's
Observed(outcome) == IF pc = "idle" THEN outcome ELSE resp

RowWithId(id) == CHOOSE r \in store : r.id = id
Exists(id) == \E r \in store : r.id = id

\* variant: the new row takes the lowest id no stored row has
CreateScript_ReusesId(body) ==
    /\ UNCHANGED <<pc, local>>
    /\ IF Len(createScriptSchemaIssues(body)) > 0
       THEN /\ resp' = Observed(Passed("createScript", body,
                           ZodError(createScriptSchemaIssues(body)), << >>, NoGhost))
            /\ UNCHANGED <<store, nextId, clock>>
       ELSE \/ \E e \in DbErrors :
                /\ resp' = Observed(Passed("createScript", body, e, <<"create">>, NoGhost))
                /\ UNCHANGED <<store, nextId, clock>>
            \/ /\ nextId < MaxIds
               /\ \E now \in {clock, clock + 1} :
                    LET free == CHOOSE n \in 1..(nextId + 1) :
                                    /\ ~Exists(IdOf(n))
                                    /\ \A m \in 1..(n - 1) : Exists(IdOf(m))
                        newScript ==
                            Row(IdOf(free),
                                IF Has(body, "title") /\ Len(body.title.v) > 0
                                THEN body.title.v ELSE s_Untitled,
                                StringsOf(body.characters), LinesOf(body.lines), now)
                    IN  /\ store' = store \cup {newScript}
                        /\ nextId' = nextId + 1
                        /\ clock' = now
                        /\ resp' = Observed(Sent("createScript", body, 201, newScript,
                                                 <<"create">>, NoGhost))

\* createScript: parse, prisma.scriptSnip.create, 201
CreateScript(body) ==
    /\ UNCHANGED <<pc, local>>
    /\ IF Len(createScriptSchemaIssues(body)) > 0
       THEN /\ resp' = Observed(Passed("createScript", body,
                           ZodError(createScriptSchemaIssues(body)), << >>, NoGhost))
            /\ UNCHANGED <<store, nextId, clock>>
       ELSE \/ \E e \in DbErrors :
                /\ resp' = Observed(Passed("createScript", body, e, <<"create">>, NoGhost))
                /\ UNCHANGED <<store, nextId, clock>>
            \/ /\ nextId < MaxIds
               /\ \E now \in {clock, clock + 1} :
                    LET newScript ==
                            Row(IdOf(nextId + 1),
                                IF Has(body, "title") /\ Len(body.title.v) > 0
                                THEN body.title.v ELSE s_Untitled,
                                StringsOf(body.characters), LinesOf(body.lines), now)
                    IN  /\ store' = store \cup {newScript}
                        /\ nextId' = nextId + 1
                        /\ clock' = now
                        /\ resp' = Observed(Sent("createScript", body, 201, newScript,
                                                 <<"create">>, NoGhost))

\* variant: data is req.body as sent, so an id in the body is written too
Updated_BodyAsSent(row, body) ==
    [row EXCEPT
        !.id = IF Has(body, "id") THEN body.id.v ELSE @,
        !.title = IF Has(body, "title") THEN body.title.v ELSE @,
        !.characters = IF Has(body, "characters") THEN StringsOf(body.characters) ELSE @,
        !.lines = IF Has(body, "lines") THEN LinesOf(body.lines) ELSE @]

\* the row after prisma.scriptSnip.update({where: {id}, data: validatedData})
Updated(row, body) ==
    [row EXCEPT
        !.title = IF Has(body, "title") THEN body.title.v ELSE @,
        !.characters = IF Has(body, "characters") THEN StringsOf(body.characters) ELSE @,
        !.lines = IF Has(body, "lines") THEN LinesOf(body.lines) ELSE @]

\* updateScript: parse, prisma.scriptSnip.update, 200
UpdateScript(id, body) ==
    /\ UNCHANGED <<pc, local, nextId, clock>>
    /\ LET req == [id |-> id, body |-> body]
       IN  IF Len(updateScriptSchemaIssues(body)) > 0
           THEN /\ resp' = Observed(Passed("updateScript", req,
                               ZodError(updateScriptSchemaIssues(body)), << >>, NoGhost))
                /\ UNCHANGED store
           ELSE \/ \E e \in DbErrors :
                    /\ resp' = Observed(Passed("updateScript", req, e, <<"update">>, NoGhost))
                    /\ UNCHANGED store
                \/ IF Exists(id)
                   THEN LET updatedScript == Updated(RowWithId(id), body)
                        IN  /\ store' = (store \ {RowWithId(id)}) \cup {updatedScript}
                            /\ resp' = Observed(Sent("updateScript", req, 200, updatedScript,
                                                     <<"update">>, NoGhost))
                   ELSE /\ resp' = Observed(Passed("updateScript", req,
                                       PrismaKnownError("P2025", "Record to update not found."),
                                       <<"update">>, NoGhost))
                        /\ UNCHANGED store

\* variant: deleteMany({ where: { id } }), which reports no missing row
DeleteScript_DeleteMany(id) ==
    /\ UNCHANGED <<pc, local, nextId, clock>>
    /\ \/ \E e \in DbErrors :
            /\ resp' = Observed(Passed("deleteScript", id, e, <<"deleteMany">>, NoGhost))
            /\ UNCHANGED store
       \/ /\ store' = {r \in store : r.id # id}
          /\ resp' = Observed(Sent("deleteScript", id, 204, << >>, <<"deleteMany">>, NoGhost))

\* variant: the catch block answers a failed delete itself, as an earlier
\* revision did: res.status(500).json({ error: 'Failed to delete script' })
DeleteScript_AnswersItself(id) ==
    /\ UNCHANGED <<pc, local, nextId, clock>>
    /\ \/ \E e \in DbErrors :
            /\ resp' = Observed(Sent("deleteScript", id, 500,
                                     [error |-> "Failed to delete script"],
                                     <<"delete">>, NoGhost))
            /\ UNCHANGED store
       \/ IF Exists(id)
          THEN /\ store' = store \ {RowWithId(id)}
               /\ resp' = Observed(Sent("deleteScript", id, 204, << >>, <<"delete">>, NoGhost))
          ELSE /\ resp' = Observed(Passed("deleteScript", id,
                              PrismaKnownError("P2025", "Record to delete does not exist."),
                              <<"delete">>, NoGhost))
               /\ UNCHANGED store

\* deleteScript: prisma.scriptSnip.delete, 204
DeleteScript(id) ==
    /\ UNCHANGED <<pc, local, nextId, clock>>
    /\ \/ \E e \in DbErrors :
            /\ resp' = Observed(Passed("deleteScript", id, e, <<"delete">>, NoGhost))
            /\ UNCHANGED store
       \/ IF Exists(id)
          THEN /\ store' = store \ {RowWithId(id)}
               /\ resp' = Observed(Sent("deleteScript", id, 204, << >>, <<"delete">>, NoGhost))
          ELSE /\ resp' = Observed(Passed("deleteScript", id,
                              PrismaKnownError("P2025", "Record to delete does not exist."),
                              <<"delete">>, NoGhost))
               /\ UNCHANGED store

-----------------------------------------------------------------------------
(* getScriptById and getScriptsByIds *)

\* variant: the snippet is fetched with delete instead of findUnique
GetScriptById_Deletes(id) ==
    /\ pc = "idle"
    /\ UNCHANGED <<nextId, clock, pc, local>>
    /\ \/ \E e \in DbErrors :
            /\ resp' = Passed("getScriptById", id, e, <<"delete">>, NoGhost)
            /\ UNCHANGED store
       \/ IF Exists(id)
          THEN /\ resp' = Sent("getScriptById", id, 200, RowWithId(id), <<"delete">>,
                               NoGhost)
               /\ store' = store \ {RowWithId(id)}
          ELSE /\ resp' = Sent("getScriptById", id, 404, [error |-> "Script not found"],
                               <<"delete">>, NoGhost)
               /\ UNCHANGED store

\* prisma.scriptSnip.findUnique({ where: { id } }), then 404 or 200
GetScriptById(id) ==
    /\ pc = "idle"
    /\ UNCHANGED <<store, nextId, clock, pc, local>>
    /\ \/ \E e \in DbErrors :
            resp' = Passed("getScriptById", id, e, <<"findUnique">>, NoGhost)
       \/ IF Exists(id)
          THEN resp' = Sent("getScriptById", id, 200, RowWithId(id), <<"findUnique">>,
                            NoGhost)
          ELSE resp' = Sent("getScriptById", id, 404, [error |-> "Script not found"],
                            <<"findUnique">>, NoGhost)

\* variant: the check without ids.length === 0
idsValid_EmptyAllowed(body) ==
    /\ Has(body, "ids")
    /\ IsArr(body.ids)
    /\ \A i \in 1..Len(body.ids.items) : IsStr(body.ids.items[i])

\* Array.isArray(ids) && ids.length > 0 && ids.every(id => typeof id === 'string')
idsValid(body) ==
    /\ Has(body, "ids")
    /\ IsArr(body.ids)
    /\ Len(body.ids.items) > 0
    /\ \A i \in 1..Len(body.ids.items) : IsStr(body.ids.items[i])

\* variant: one findUnique per requested id, the rows found kept in request
\* order (a stored id asked for twice comes twice)
findManyIn_PerId(rows, ids) ==
    LET stored(id) == \E r \in rows : r.id = id
        found == SelectSeq(ids, stored)
    IN  {[i \in 1..Len(found) |-> CHOOSE r \in rows : r.id = found[i]]}

\* prisma.scriptSnip.findMany({ where: { id: { in: ids } } }): the rows found,
\* in any order
findManyIn(rows, ids) == Perms({r \in rows : \E i \in 1..Len(ids) : ids[i] = r.id})

GetScriptsByIds(body) ==
    /\ pc = "idle"
    /\ UNCHANGED <<store, nextId, clock, pc, local>>
    /\ IF ~idsValid(body)
       THEN resp' = Passed("getScriptsByIds", body,
                      AppError("Invalid input: 'ids' must be a non-empty array of strings.", 400),
                      << >>, NoGhost)
       ELSE \/ \E e \in DbErrors :
                 resp' = Passed("getScriptsByIds", body, e, <<"findMany">>, NoGhost)
            \/ \E scripts \in findManyIn(store, StringsOf(body.ids)) :
                 resp' = Sent("getScriptsByIds", body, 200, scripts, <<"findMany">>, NoGhost)

-----------------------------------------------------------------------------
(* getRandomScript *)

\* variant: no check of count === 0 before the random index is drawn
GetRandomScript_NoEmptyCheck ==
    /\ pc = "idle"
    /\ UNCHANGED <<store, nextId, clock>>
    /\ \/ \E e \in DbErrors :
            /\ resp' = Passed("getRandomScript", << >>, e, <<"count">>, NoGhost)
            /\ UNCHANGED <<pc, local>>
       \/ LET count == Cardinality(store)
          IN  \E randomIndex \in 0..Max(count - 1, 0) :
                  /\ pc' = "randomFetch"
                  /\ local' = [op |-> "getRandomScript", count |-> count,
                               randomIndex |-> randomIndex]
                  /\ resp' = NoResp

\* prisma.scriptSnip.count(), then Math.floor(Math.random() * count)
GetRandomScript ==
    /\ pc = "idle"
    /\ UNCHANGED <<store, nextId, clock>>
    /\ \/ \E e \in DbErrors :
            /\ resp' = Passed("getRandomScript", << >>, e, <<"count">>, NoGhost)
            /\ UNCHANGED <<pc, local>>
       \/ LET count == Cardinality(store)
          IN  IF count = 0
              THEN /\ resp' = Passed("getRandomScript", << >>,
                                     AppError("No scripts available to choose from.", 404),
                                     <<"count">>, [count |-> count])
                   /\ UNCHANGED <<pc, local>>
              ELSE \E randomIndex \in 0..(count - 1) :
                       /\ pc' = "randomFetch"
                       /\ local' = [op |-> "getRandomScript", count |-> count,
                                    randomIndex |-> randomIndex]
                       /\ resp' = NoResp

\* prisma.scriptSnip.findFirst({ skip }): the table has no ORDER BY here, so
\* the row at an offset inside the table is any row; past the end it is null
findFirstSkip(rows, skip) ==
    IF skip < Cardinality(rows) THEN {[found |-> TRUE, row |-> r] : r \in rows}
    ELSE {[found |-> FALSE, row |-> << >>]}

\* variant: no check of !randomScript, the null of findFirst is sent as 200
GetRandomScriptFetch_SendsNull ==
    /\ pc = "randomFetch"
    /\ UNCHANGED <<store, nextId, clock>>
    /\ pc' = "idle"
    /\ local' = NoLocal
    /\ LET calls == <<"count", "findFirst">>
           ghost == [count |-> local.count, randomIndex |-> local.randomIndex,
                     fetchStore |-> store]
       IN  \/ \E e \in DbErrors :
                resp' = Passed("getRandomScript", << >>, e, calls, NoGhost)
           \/ \E randomScript \in findFirstSkip(store, local.randomIndex) :
                resp' = Sent("getRandomScript", << >>, 200, randomScript.row, calls, ghost)

\* prisma.scriptSnip.findFirst({ skip: randomIndex }), and the response
GetRandomScriptFetch ==
    /\ pc = "randomFetch"
    /\ UNCHANGED <<store, nextId, clock>>
    /\ pc' = "idle"
    /\ local' = NoLocal
    /\ LET calls == <<"count", "findFirst">>
           ghost == [count |-> local.count, randomIndex |-> local.randomIndex,
                     fetchStore |-> store]
       IN  \/ \E e \in DbErrors :
                resp' = Passed("getRandomScript", << >>, e, calls, NoGhost)
           \/ \E randomScript \in findFirstSkip(store, local.randomIndex) :
                IF ~randomScript.found
                THEN resp' = Passed("getRandomScript", << >>,
                                    AppError("Failed to retrieve a random script.", 500),
                                    calls, ghost)
                ELSE resp' = Sent("getRandomScript", << >>, 200, randomScript.row,
                                  calls, ghost)

-----------------------------------------------------------------------------
(* getRandomScripts *)

RandomQuery(count, excludeIds) == [count |-> count, excludeIds |-> excludeIds]

\* parseInt(countParam, 10) of a supplied count
parsedCountOf(q) == parseInt(ToStr(q.count))

\* excludeIdsQuery.split(',') throws when the value is an array
excludeIdsThrows(q) == q.excludeIds.k = "arr"

NonEmpty(s) == Len(s) > 0

\* variant: the ids split on commas but not trimmed
excludeIdsOf_NoTrim(q) ==
    IF Truthy(q.excludeIds)
    THEN SelectSeq(Split(q.excludeIds.v, ","), NonEmpty)
    ELSE << >>

\* excludeIdsQuery ? excludeIdsQuery.split(',').map(trim).filter(id => id) : []
excludeIdsOf(q) ==
    IF Truthy(q.excludeIds)
    THEN LET parts == Split(q.excludeIds.v, ",")
         IN  SelectSeq([i \in 1..Len(parts) |-> Trim(parts[i])], NonEmpty)
    ELSE << >>

Range(s) == {s[i] : i \in 1..Len(s)}

\* SELECT * FROM script_snips [WHERE id NOT IN (..)] ORDER BY RANDOM() LIMIT n:
\* every list of n distinct rows that are not excluded (all of them when fewer)
sampleQuery(rows, excludeIds, limitCount) ==
    LET eligible == IF Len(excludeIds) > 0
                    THEN {r \in rows : r.id \notin Range(excludeIds)} ELSE rows
        n == Min(limitCount, Cardinality(eligible))
    IN  {f \in [1..n -> eligible] : \A i, j \in 1..n : i # j => f[i] # f[j]}

RECURSIVE JoinParams(_)
\* Prisma.join(excludeIds): one bound parameter per id, commas between
JoinParams(ids) ==
    IF Len(ids) = 0 THEN << >>
    ELSE IF Len(ids) = 1 THEN << TextParam(ids[1]) >>
    ELSE << TextParam(ids[1]), Sql(",") >> \o JoinParams(Tail(ids))

\* the sampling statement: SELECT .. ${whereClause} ORDER BY RANDOM() LIMIT ${limitCount}
randomScriptsSql(excludeIds, limitCount) ==
    << Sql("SELECT * FROM script_snips") >>
    \o (IF Len(excludeIds) > 0
        THEN << Sql("WHERE id NOT IN (") >> \o JoinParams(excludeIds) \o << Sql(")") >>
        ELSE << Sql("WHERE 1=1") >>)
    \o << Sql("ORDER BY RANDOM() LIMIT"), IntParam(limitCount), Sql(";") >>

\* variant: the empty table reported through next(new AppError(.., 404)), as
\* getRandomScript reports it
NoScriptsResponse_ViaNext(q, totalCount) ==
    Passed("getRandomScripts", q, AppError("No scripts available in the database.", 404),
           <<"count">>, [totalCount |-> totalCount])

\* res.status(404).json({ message: 'No scripts available in the database.' })
NoScriptsResponse(q, totalCount) ==
    Sent("getRandomScripts", q, 404, [message |-> "No scripts available in the database."],
         <<"count">>, [totalCount |-> totalCount])

\* variant: count = 0 rejected like a negative count, as an earlier revision
\* of the controller did (only parsedCount > 0 accepted)
GetRandomScripts_ZeroRejected(q) ==
    /\ pc = "idle"
    /\ UNCHANGED <<store, nextId, clock>>
    /\ IF Truthy(q.count) /\ (parsedCountOf(q).nan \/ parsedCountOf(q).n <= 0)
       THEN /\ resp' = Passed("getRandomScripts", q,
                   AppError("Invalid count parameter. Must be a positive integer.", 400),
                   << >>, NoGhost)
            /\ UNCHANGED <<pc, local>>
       ELSE IF excludeIdsThrows(q)
       THEN /\ resp' = Thrown("getRandomScripts", q,
                              TypeError("split is not a function"), << >>)
            /\ UNCHANGED <<pc, local>>
       ELSE LET count == IF Truthy(q.count) THEN parsedCountOf(q).n ELSE defaultCount
                totalCount == Cardinality(store)
            IN  \/ \E e \in DbErrors :
                     /\ resp' = Passed("getRandomScripts", q, e, <<"count">>, NoGhost)
                     /\ UNCHANGED <<pc, local>>
                \/ IF totalCount = 0
                   THEN /\ resp' = NoScriptsResponse(q, totalCount)
                        /\ UNCHANGED <<pc, local>>
                   ELSE /\ pc' = "randomSample"
                        /\ local' = [op |-> "getRandomScripts", req |-> q,
                                     totalCount |-> totalCount,
                                     limitCount |-> Min(count, totalCount),
                                     excludeIds |-> excludeIdsOf(q)]
                        /\ resp' = NoResp

\* variant: LIMIT is count itself, not Math.min(count, totalCount)
GetRandomScripts_NoClamp(q) ==
    /\ pc = "idle"
    /\ UNCHANGED <<store, nextId, clock>>
    /\ IF Truthy(q.count) /\ ~parsedCountOf(q).nan /\ parsedCountOf(q).n = 0
       THEN /\ resp' = Sent("getRandomScripts", q, 200, << >>, << >>, NoGhost)
            /\ UNCHANGED <<pc, local>>
       ELSE IF Truthy(q.count) /\ (parsedCountOf(q).nan \/ parsedCountOf(q).n < 0)
       THEN /\ resp' = Passed("getRandomScripts", q,
                   AppError("Invalid count parameter. Must be a positive integer.", 400),
                   << >>, NoGhost)
            /\ UNCHANGED <<pc, local>>
       ELSE IF excludeIdsThrows(q)
       THEN /\ resp' = Thrown("getRandomScripts", q,
                              TypeError("split is not a function"), << >>)
            /\ UNCHANGED <<pc, local>>
       ELSE LET count == IF Truthy(q.count) THEN parsedCountOf(q).n ELSE defaultCount
                totalCount == Cardinality(store)
            IN  \/ \E e \in DbErrors :
                     /\ resp' = Passed("getRandomScripts", q, e, <<"count">>, NoGhost)
                     /\ UNCHANGED <<pc, local>>
                \/ IF totalCount = 0
                   THEN /\ resp' = NoScriptsResponse(q, totalCount)
                        /\ UNCHANGED <<pc, local>>
                   ELSE /\ pc' = "randomSample"
                        /\ local' = [op |-> "getRandomScripts", req |-> q,
                                     totalCount |-> totalCount,
                                     limitCount |-> count,
                                     excludeIds |-> excludeIdsOf(q)]
                        /\ resp' = NoResp

\* the handler up to prisma.scriptSnip.count() and the empty-table answer
GetRandomScripts(q) ==
    /\ pc = "idle"
    /\ UNCHANGED <<store, nextId, clock>>
    /\ IF Truthy(q.count) /\ ~parsedCountOf(q).nan /\ parsedCountOf(q).n = 0
       THEN /\ resp' = Sent("getRandomScripts", q, 200, << >>, << >>, NoGhost)
            /\ UNCHANGED <<pc, local>>
       ELSE IF Truthy(q.count) /\ (parsedCountOf(q).nan \/ parsedCountOf(q).n < 0)
       THEN /\ resp' = Passed("getRandomScripts", q,
                   AppError("Invalid count parameter. Must be a positive integer.", 400),
                   << >>, NoGhost)
            /\ UNCHANGED <<pc, local>>
       ELSE IF excludeIdsThrows(q)
       THEN /\ resp' = Thrown("getRandomScripts", q,
                              TypeError("split is not a function"), << >>)
            /\ UNCHANGED <<pc, local>>
       ELSE LET count == IF Truthy(q.count) THEN parsedCountOf(q).n ELSE defaultCount
                totalCount == Cardinality(store)
            IN  \/ \E e \in DbErrors :
                     /\ resp' = Passed("getRandomScripts", q, e, <<"count">>, NoGhost)
                     /\ UNCHANGED <<pc, local>>
                \/ IF totalCount = 0
                   THEN /\ resp' = NoScriptsResponse(q, totalCount)
                        /\ UNCHANGED <<pc, local>>
                   ELSE /\ pc' = "randomSample"
                        /\ local' = [op |-> "getRandomScripts", req |-> q,
                                     totalCount |-> totalCount,
                                     limitCount |-> Min(count, totalCount),
                                     excludeIds |-> excludeIdsOf(q)]
                        /\ resp' = NoResp

\* the sampling query, and the response
GetRandomScriptsSample ==
    /\ pc = "randomSample"
    /\ UNCHANGED <<store, nextId, clock>>
    /\ pc' = "idle"
    /\ local' = NoLocal
    /\ LET calls == <<"count", "$queryRaw">>
       IN  \/ \E e \in DbErrors :
                resp' = Passed("getRandomScripts", local.req, e, calls,
                               [sql |-> <<randomScriptsSql(local.excludeIds,
                                                           local.limitCount)>>])
           \/ \E randomScripts \in sampleQuery(store, local.excludeIds, local.limitCount) :
                resp' = Sent("getRandomScripts", local.req, 200, randomScripts, calls,
                             [totalCount |-> local.totalCount,
                              limitCount |-> local.limitCount,
                              excludeIds |-> local.excludeIds,
                              sampleStore |-> store,
                              sql |-> <<randomScriptsSql(local.excludeIds,
                                                         local.limitCount)>>])

-----------------------------------------------------------------------------
(* The requests of Spec *)

aLine == [character |-> Str(<<"k">>), dialogue |-> Str(<<"h","i">>)]

\* bodies of POST /api/scripts: a title, no title, and a body the schema rejects
CreateBodies ==
    { [title |-> Str(<<"a">>), characters |-> Arr(<<Str(<<"k">>)>>), lines |-> Arr(<<aLine>>)],
      [characters |-> Arr(<<Str(<<"k">>)>>), lines |-> Arr(<<aLine>>)],
      [title |-> Str(<<"b">>), characters |-> Arr(<< >>), lines |-> Arr(<<aLine>>)] }

\* bodies of PUT /api/scripts/:id: a title sent along with an id and a
\* createdAt, and a body with no known key
UpdateBodies ==
    { [title |-> Str(<<"b">>), id |-> Str(IdOf(2)), createdAt |-> Str(<<"9">>)],
      [unknown |-> Str(<<"a">>)] }

\* bodies of POST /api/scripts/batch: two ids, no ids key, an empty array
BatchBodies ==
    { [ids |-> Arr(<<Str(IdOf(1)), Str(IdOf(2))>>)],
      [title |-> Str(<<"a">>)],
      [ids |-> Arr(<< >>)] }

\* the ids of requests: every id the table can hold
RequestIds == {IdOf(n) : n \in 1..MaxIds}

\* the listing requests of Spec
ListQueries ==
    { ListQuery(Absent, Absent, Absent, Absent, Absent),
      ListQuery(Str(<<"2">>), Str(<<"1">>), Absent, Str(s_title), Str(s_asc)),
      ListQuery(Absent, Absent, Str(<<"a">>), Absent, Absent),
      ListQuery(Str(<<"0">>), Absent, Absent, Absent, Absent),
      ListQuery(Absent, Absent, Absent, Absent, Arr(<<s_asc, s_desc>>)) }

\* the random-multiple requests of Spec
RandomQueries ==
    { RandomQuery(Absent, Absent),
      RandomQuery(Str(<<"0">>), Absent),
      RandomQuery(Str(<<"1">>), Str(<<"1", ",", " ", "2">>)),
      RandomQuery(Str(<<"-", "1">>), Absent),
      RandomQuery(Absent, Arr(<< <<"1">>, <<"2">> >>)) }

-----------------------------------------------------------------------------
(* The system: one observed client issuing one request at a time, and      *)
(* other clients whose writes run while its read is suspended on the store *)

Init ==
    /\ store = {}
    /\ nextId = 0
    /\ clock = 0
    /\ pc = "idle"
    /\ local = NoLocal
    /\ resp = NoResp
    /\ hits = 0

\* the creates of Spec are POSTs the limiter has let through, from any client
Next ==
    \/ \E body \in CreateBodies : CreateScript(body) /\ UNCHANGED hits
    \/ \E id \in RequestIds, body \in UpdateBodies : UpdateScript(id, body) /\ UNCHANGED hits
    \/ \E id \in RequestIds : DeleteScript(id) /\ UNCHANGED hits
    \/ \E id \in RequestIds : GetScriptById(id) /\ UNCHANGED hits
    \/ \E body \in BatchBodies : GetScriptsByIds(body) /\ UNCHANGED hits
    \/ \E q \in ListQueries : GetAllScripts(q) /\ UNCHANGED hits
    \/ GetAllScriptsCount /\ UNCHANGED hits
    \/ GetRandomScript /\ UNCHANGED hits
    \/ GetRandomScriptFetch /\ UNCHANGED hits
    \/ \E q \in RandomQueries : GetRandomScripts(q) /\ UNCHANGED hits
    \/ GetRandomScriptsSample /\ UNCHANGED hits

Spec == Init /\ [][Next]_vars

-----------------------------------------------------------------------------
(* SpecQueries: the read handlers over every spelling of their parameters, *)
(* on a table that three inserts and some deletes have left                *)

\* three inserted rows: rows 1 and 2 share createdAt, rows 2 and 3 have
\* titles that differ in case only, row 1 has an upper-case title that sorts
\* last without regard to case, row 3 holds an underscore
QueryRows ==
    { Row(IdOf(1), <<"B">>, << <<"k">> >>,
          << [character |-> <<"k">>, dialogue |-> <<"h","i">>] >>, 1),
      Row(IdOf(2), <<"A">>, << <<"a">>, <<"c">> >>,
          << [character |-> <<"a">>, dialogue |-> <<"H","i">>],
             [character |-> <<"c">>, dialogue |-> <<"n","o">>] >>, 1),
      Row(IdOf(3), <<"a">>, << <<"k">> >>,
          << [character |-> <<"k">>, dialogue |-> <<"x","_","y">>] >>, 2) }

InitQueries ==
    /\ store \in SUBSET QueryRows
    /\ nextId = 3
    /\ clock = 2
    /\ pc = "idle"
    /\ local = NoLocal
    /\ resp = NoResp
    /\ hits = 0

\* spellings of page and limit
PageSpellings ==
    { Absent, Str(<< >>), Str(<<"1">>), Str(<<"2">>), Str(<<"3">>), Str(<<"0">>),
      Str(<<"-","1">>), Str(<<"1",".","5">>), Str(<<"a","b","c">>),
      Str(<<"2","a","b","c">>), Str(<<" ","2">>), Str(<<"+","1">>),
      Arr(<< <<"1">>, <<"2">> >>) }
LimitSpellings ==
    { Absent, Str(<<"1">>), Str(<<"2">>), Str(<<"0">>), Str(<<"-","5">>),
      Str(<<"2",".","5">>), Str(<<"x">>), Str(<<"1","0">>) }

\* spellings of sortBy and sortOrder
SortBySpellings ==
    { Absent, Str(<< >>), Str(s_title), Str(s_createdAt),
      Str(<<"T","i","t","l","e">>), Str(<<"i","d">>), Arr(<<s_title>>) }
SortOrderSpellings ==
    { Absent, Str(<< >>), Str(s_asc), Str(s_desc), Str(<<"A","S","C">>),
      Str(<<"D","e","s","c">>), Str(<<"u","p">>), Arr(<<s_asc, s_desc>>) }

\* search texts: letters in both cases, the LIKE metacharacters, two characters
SearchSpellings ==
    { Absent, Str(<< >>), Str(<<"a">>), Str(<<"A">>), Str(<<"b">>), Str(<<"k">>),
      Str(<<"h","I">>), Str(<<"_">>), Str(<<"%">>), Str(<<"x","_">>),
      Str(<<"h","_">>), Str(<<"o","n">>), Str(<<"\\">>), Arr(<< <<"a">>, <<"c">> >>) }

\* the listing requests of SpecQueries
ListSpellings ==
    {ListQuery(p, l, Absent, Absent, Absent) : p \in PageSpellings, l \in LimitSpellings}
    \cup
    {ListQuery(p, p, Absent, b, o) :
        p \in {Absent, Str(<<"2">>)}, b \in SortBySpellings, o \in SortOrderSpellings}
    \cup
    {ListQuery(Absent, l, s, Absent, Absent) :
        l \in {Absent, Str(<<"1">>)}, s \in SearchSpellings}
    \cup
    {ListQuery(Str(<<"0">>), Absent, Absent, Absent, o) : o \in SortOrderSpellings}
    \cup
    {ListQuery(p, l, s, b, o) :
        p \in {Str(<<"1">>), Str(<<"2">>)}, l \in {Str(<<"1">>), Str(<<"2">>)},
        s \in {Absent, Str(<<"a">>)}, b \in {Absent, Str(s_title)},
        o \in {Str(s_asc), Str(s_desc)}}

\* spellings of count and excludeIds
CountSpellings ==
    { Absent, Str(<< >>), Str(<<"0">>), Str(<<"0","0">>), Str(<<"-","0">>),
      Str(<<"1">>), Str(<<"2">>), Str(<<"5">>), Str(<<"-","1">>),
      Str(<<"a","b","c">>), Str(<<"2",".","5">>), Str(<<"0",".","5">>),
      Str(<<"-","0",".","5">>), Str(<<"2","a","b","c">>), Str(<<" ","3">>),
      Arr(<< <<"0">>, <<"1">> >>), Arr(<< <<"2">> >>) }
ExcludeIdsSpellings ==
    { Absent, Str(<<"1">>), Str(<<"1", ",", " ", "2">>), Str(<<",">>),
      Str(<<"1", ",", "2", ",", "3">>), Arr(<< <<"1">>, <<"2">> >>) }

\* the random-multiple requests of SpecQueries
RandomSpellings ==
    {RandomQuery(c, x) : c \in CountSpellings, x \in ExcludeIdsSpellings}

\* the ids of GET /api/scripts/:id in SpecQueries: stored or not
IdSpellings == {IdOf(1), IdOf(2), IdOf(3), IdOf(9), <<"x">>}

\* bodies of POST /api/scripts/batch in SpecQueries: stored and unknown ids,
\* an id twice, and every way ids can be ill-formed
BatchSpellings ==
    { [ids |-> Arr(<<Str(IdOf(1)), Str(IdOf(2))>>)],
      [ids |-> Arr(<<Str(IdOf(3)), Str(IdOf(1)), Str(IdOf(2))>>)],
      [ids |-> Arr(<<Str(IdOf(1)), Str(IdOf(1))>>)],
      [ids |-> Arr(<<Str(IdOf(2)), Str(IdOf(9))>>)],
      [ids |-> Arr(<<Str(IdOf(9))>>)],
      [ids |-> Arr(<<Str(<< >>)>>)],
      [ids |-> Arr(<< >>)],
      [ids |-> Str(IdOf(1))],
      [ids |-> [id |-> Str(IdOf(1))]],
      [ids |-> Arr(<<Str(IdOf(1)), Arr(<<Str(IdOf(2))>>)>>)],
      [ids |-> Arr(<<[id |-> Str(IdOf(1))]>>)],
      [id |-> Arr(<<Str(IdOf(1))>>)],
      [title |-> Str(<<"a">>)] }

\* SpecQueries follows one request on the table: the handlers keep nothing
\* between requests
FirstRequest == resp = NoResp

\* the client sends the listing request it just got answered once more
RepeatListing ==
    /\ resp.op = "getAllScripts" /\ resp.via = "res"
    /\ GetAllScripts(resp.req)

NextQueries ==
    \/ FirstRequest /\ \E q \in ListSpellings : GetAllScripts(q) /\ UNCHANGED hits
    \/ GetAllScriptsCount /\ UNCHANGED hits
    \/ FirstRequest /\ GetRandomScript /\ UNCHANGED hits
    \/ GetRandomScriptFetch /\ UNCHANGED hits
    \/ FirstRequest /\ \E q \in RandomSpellings : GetRandomScripts(q) /\ UNCHANGED hits
    \/ GetRandomScriptsSample /\ UNCHANGED hits
    \/ FirstRequest /\ \E id \in IdSpellings : GetScriptById(id) /\ UNCHANGED hits
    \/ FirstRequest /\ \E body \in BatchSpellings : GetScriptsByIds(body) /\ UNCHANGED hits
    \/ RepeatListing /\ UNCHANGED hits

SpecQueries == InitQueries /\ [][NextQueries]_vars

-----------------------------------------------------------------------------
(* SpecErrors: errorHandler applied to every kind of value that can be     *)
(* passed to it                                                            *)

ErrorMessages == {"", "Unexpected token } in JSON at position 1", "Something went wrong"}

\* SyntaxError instances: body-parser's (status 400 and body set) and others
\* that carry only one of the two properties, another status, or neither
SyntaxErrors ==
    {[type |-> "SyntaxError", message |-> m, statusCode |-> st, code |-> b, issues |-> << >>] :
        m \in ErrorMessages, st \in {0, 400, 413}, b \in {"", "body"}}

IssuePaths ==
    { << >>, <<Key("title")>>, <<Key("characters"), Index(1)>>,
      <<Key("lines"), Index(0), Key("character")>> }
IssueMessages == {"Required", "Expected string, received number"}
SomeIssues == {Issue(p, m) : p \in IssuePaths, m \in IssueMessages}

\* ZodError instances with no, one or two issues
ZodErrors ==
    {ZodError(<< >>)} \cup {ZodError(<<i>>) : i \in SomeIssues}
    \cup {ZodError(<<i, j>>) : i \in SomeIssues, j \in SomeIssues}

PrismaErrors ==
    {PrismaKnownError(c, m) : c \in {"P2025", "P2002", "P2003", "P1001"}, m \in ErrorMessages}

AppErrors ==
    {AppError(m, st) : m \in ErrorMessages, st \in {400, 401, 403, 404, 409, 500, 503}}

OtherErrors ==
    {PlainError(m) : m \in ErrorMessages} \cup {TypeError(m) : m \in ErrorMessages}

\* values that are no Error: null, undefined, a string, and plain objects that
\* carry message, statusCode, code or status and body all the same
NonErrors ==
    {[type |-> "nonError", message |-> m, statusCode |-> st, code |-> c, issues |-> << >>] :
        m \in ErrorMessages, st \in {0, 400, 404}, c \in {"", "body", "P2025"}}

ErrorValues ==
    SyntaxErrors \cup ZodErrors \cup PrismaErrors \cup AppErrors \cup OtherErrors
    \cup NonErrors

\* errorHandler(err, req, res, next) called with err: it sends the response
\* itself and returns
HandleError(err) ==
    /\ resp' = Sent("errorHandler", err, errorHandler(err).status, errorHandler(err).body,
                    << >>, NoGhost)
    /\ UNCHANGED <<store, nextId, clock, pc, local>>

InitErrors ==
    /\ store = {}
    /\ nextId = 1
    /\ clock = 0
    /\ pc = "idle"
    /\ local = NoLocal
    /\ resp = NoResp
    /\ hits = 0

NextErrors == \E err \in ErrorValues : HandleError(err) /\ UNCHANGED hits

SpecErrors == InitErrors /\ [][NextErrors]_vars

-----------------------------------------------------------------------------
(* SpecWrites: createScript and updateScript over bodies the schemas accept *)
(* and bodies they reject                                                   *)

noDialogue == [character |-> Str(<<"k">>), dialogue |-> Str(<< >>)]
noCharacter == [character |-> Str(<< >>), dialogue |-> Str(<<"h","i">>)]
oneCharacter == Arr(<<Str(<<"k">>)>>)
oneLine == Arr(<<aLine>>)

\* bodies of POST /api/scripts
CreateSpellings ==
    { [title |-> Str(<<"a">>), characters |-> oneCharacter, lines |-> oneLine],
      [characters |-> oneCharacter, lines |-> oneLine],
      [title |-> Str(<< >>), characters |-> Arr(<<Str(<<"k">>), Str(<<"c">>)>>),
       lines |-> Arr(<<aLine, aLine>>)],
      [characters |-> oneCharacter, lines |-> oneLine, unknown |-> Str(<<"a">>)],
      [title |-> Str(<<"a">>), characters |-> Arr(<< >>), lines |-> oneLine],
      [title |-> Str(<<"a">>), characters |-> oneCharacter, lines |-> Arr(<< >>)],
      [characters |-> Arr(<< >>), lines |-> Arr(<< >>)],
      [characters |-> Arr(<<Str(<<"k">>), Str(<< >>)>>), lines |-> oneLine],
      [characters |-> oneCharacter, lines |-> Arr(<<noCharacter>>)],
      [characters |-> oneCharacter, lines |-> Arr(<<aLine, noDialogue>>)],
      [title |-> Str(<<"a">>), lines |-> oneLine],
      [title |-> Str(<<"a">>), characters |-> oneCharacter],
      [title |-> Str(<<"a">>)],
      [unknown |-> Str(<<"a">>)],
      [title |-> Arr(<<Str(<<"a">>)>>), characters |-> oneCharacter, lines |-> oneLine],
      [characters |-> Str(<<"k">>), lines |-> oneLine],
      [characters |-> oneCharacter, lines |-> Str(<<"h","i">>)],
      [characters |-> oneCharacter, lines |-> Arr(<<Str(<<"h","i">>)>>)],
      [characters |-> oneCharacter, lines |-> Arr(<<[character |-> Str(<<"k">>)]>>)],
      [characters |-> Arr(<<oneCharacter>>), lines |-> oneLine] }

\* bodies of PUT /api/scripts/:id
UpdateSpellings ==
    { [title |-> Str(<<"b">>)],
      [title |-> Str(<< >>)],
      [characters |-> Arr(<<Str(<<"c">>)>>)],
      [lines |-> Arr(<<aLine, aLine>>)],
      [title |-> Str(<<"b">>), characters |-> oneCharacter, lines |-> oneLine],
      [characters |-> Arr(<< >>)],
      [lines |-> Arr(<< >>)],
      [title |-> Str(<<"b">>), unknown |-> Str(<<"a">>)],
      [lines |-> oneLine, id |-> Str(<<"2">>), createdAt |-> Str(<<"9">>)],
      [unknown |-> Str(<<"a">>)],
      [id |-> Str(<<"1">>), createdAt |-> Str(<<"0">>)],
      [characters |-> Arr(<<Str(<<"k">>), Str(<< >>)>>)],
      [lines |-> Arr(<<aLine, noDialogue>>)],
      [lines |-> Arr(<<noCharacter>>)],
      [title |-> Arr(<<Str(<<"b">>)>>)],
      [title |-> Str(<<"b">>), characters |-> Str(<<"k">>)],
      [lines |-> Arr(<<[dialogue |-> Str(<<"h","i">>)]>>)],
      [title |-> Str(<<"b">>), lines |-> Str(<<"h","i">>)] }

\* the table after one insert, the row still there or deleted since
InitWrites ==
    /\ store \in SUBSET {Row(IdOf(1), <<"a">>, << <<"k">> >>,
                              << [character |-> <<"k">>, dialogue |-> <<"h","i">>] >>, 1)}
    /\ nextId = 1
    /\ clock = 1
    /\ pc = "idle"
    /\ local = NoLocal
    /\ resp = NoResp
    /\ hits = 0

\* SpecWrites follows one request on the table, as SpecQueries does
NextWrites ==
    \/ FirstRequest /\ \E body \in CreateSpellings : CreateScript(body) /\ UNCHANGED hits
    \/ FirstRequest /\ \E id \in RequestIds, body \in UpdateSpellings : UpdateScript(id, body) /\ UNCHANGED hits

SpecWrites == InitWrites /\ [][NextWrites]_vars

-----------------------------------------------------------------------------
(* SpecLimiter: POST /api/scripts as routed, createScriptLimiter first and  *)
(* createScript behind it, for one client address                          *)

\* at most this many POSTs of the client are followed in one window
MaxHits == 32

\* rateLimit({ max })
limiterMax == 30

\* rateLimit({ message })
limiterMessage == "Too many scripts created from this IP today, please try again tomorrow"

\* variant: the limiter compares the count it had before this request
PostScripts_CountBefore(body) ==
    /\ pc = "idle"
    /\ hits < MaxHits
    /\ hits' = hits + 1
    /\ IF hits > limiterMax
       THEN /\ resp' = Sent("createScriptLimiter", body, 429, limiterMessage, << >>, NoGhost)
            /\ UNCHANGED <<store, nextId, clock, pc, local>>
       ELSE CreateScript(body)

\* router.post('/', createScriptLimiter, createScript): the limiter counts the
\* request; past max it sends 429 with the message as text and the handler is
\* not called, else it calls next() and createScript runs
PostScripts(body) ==
    /\ pc = "idle"
    /\ hits < MaxHits
    /\ hits' = hits + 1
    /\ IF hits + 1 > limiterMax
       THEN /\ resp' = Sent("createScriptLimiter", body, 429, limiterMessage, << >>, NoGhost)
            /\ UNCHANGED <<store, nextId, clock, pc, local>>
       ELSE CreateScript(body)

\* windowMs has passed since the window opened: the count starts again
WindowExpires ==
    /\ hits > 0
    /\ hits' = 0
    /\ UNCHANGED <<store, nextId, clock, pc, local, resp>>

InitLimiter ==
    /\ store = {}
    /\ nextId = 0
    /\ clock = 0
    /\ pc = "idle"
    /\ local = NoLocal
    /\ resp = NoResp
    /\ hits = 0

NextLimiter ==
    \/ \E body \in CreateBodies : PostScripts(body)
    \/ WindowExpires

SpecLimiter == InitLimiter /\ [][NextLimiter]_vars

-----------------------------------------------------------------------------
(* Vocabulary of the properties *)

IsListing == resp.op = "getAllScripts"
ListingAnswered == IsListing /\ resp.via = "res" /\ resp.status = 200
Pagination == resp.body.pagination
Data == resp.body.data

IsRandomMultiple == resp.op = "getRandomScripts"

\* a supplied parameter: a single non-empty string
Supplied(p) == p.k = "str" /\ Len(p.v) > 0
NotSupplied(p) == p.k = "absent" \/ (p.k = "str" /\ Len(p.v) = 0)

AllDigits(s) == Len(s) > 0 /\ \A i \in 1..Len(s) : IsDigit(s[i])

\* the text without surrounding blanks and without one leading sign
Unsigned(s) ==
    LET body == Trim(s)
    IN  IF Len(body) > 1 /\ Head(body) \in {"-", "+"} THEN Tail(body) ELSE body

Negative(s) == Len(Trim(s)) > 0 /\ Head(Trim(s)) = "-"

\* the text is a decimal integer, with or without a sign
IntegerText(s) == AllDigits(Unsigned(s))

\* the number an integer text spells
IntegerValue(s) ==
    IF Negative(s) THEN 0 - DigitsValue(Unsigned(s), 0) ELSE DigitsValue(Unsigned(s), 0)

\* a supplied page or limit that is not a positive integer
BadPageOrLimit(p) == Supplied(p) /\ (~IntegerText(p.v) \/ IntegerValue(p.v) <= 0)

\* the page (limit) a request asks for when it spells one properly, else the default
Asked(p, default) == IF Supplied(p) THEN IntegerValue(p.v) ELSE default
WellFormed(p) == NotSupplied(p) \/ (Supplied(p) /\ IntegerText(p.v) /\ IntegerValue(p.v) >= 1)

ValidationError(message) ==
    /\ resp.via = "next"
    /\ resp.err = AppError(message, 400)
    /\ resp.status = 400
    /\ resp.body = [error |-> message]
    /\ resp.calls = << >>

\* rows[i] sorts no later than rows[j] for i < j, by the key, in the direction
SortedBy(rows, sortBy, sortOrder) ==
    \A i, j \in 1..Len(rows) :
        i < j =>
            LET first == IF sortOrder = s_asc THEN rows[i] ELSE rows[j]
                second == IF sortOrder = s_asc THEN rows[j] ELSE rows[i]
            IN  IF sortBy = s_title
                THEN ~StrLess(ToLower(second.title), ToLower(first.title))
                ELSE first.createdAt <= second.createdAt

\* s occurs in text as a substring, letters compared without regard to case
ContainsCI(text, s) ==
    \E i \in 1..(Len(text) - Len(s) + 1) :
        ToLower(SubSeq(text, i, i + Len(s) - 1)) = ToLower(s)

\* the snippet matches the search text as the listing contract states it
MatchesSearch(row, s) ==
    \/ ContainsCI(row.title, s)
    \/ \E i \in 1..Len(row.characters) : ContainsCI(row.characters[i], s)
    \/ \E i \in 1..Len(row.lines) : ContainsCI(row.lines[i].dialogue, s)

-----------------------------------------------------------------------------
(* C1 .. C10 *)

\* C1 (as claimed): a listing request whose page or limit is supplied and is
\* not a positive integer (<= 0, or not an integer text) is never run against
\* the store: it ends as the 400 validation error with no store call.
C1_InvalidPaginationRejected ==
    /\ pc = "listCount" =>
            ~BadPageOrLimit(local.req.page) /\ ~BadPageOrLimit(local.req.limit)
    /\ (IsListing /\ (BadPageOrLimit(resp.req.page) \/ BadPageOrLimit(resp.req.limit))) =>
            ValidationError("Invalid pagination parameters. Page and limit must be positive integers.")

\* C2: in every answered listing whose sortBy is not exactly title or
\* createdAt (absent included), the echoed sortBy is createdAt and the rows
\* come ordered by createdAt; a requested sortOrder asc or desc is echoed and
\* is the direction of that order.
C2_SortByFallsBackToCreatedAt ==
    (ListingAnswered /\ resp.req.sortBy \notin {Str(s_title), Str(s_createdAt)}) =>
        /\ Pagination.sortBy = s_createdAt
        /\ SortedBy(resp.ghost.ordered, s_createdAt, Pagination.sortOrder)
        /\ SortedBy(Data, s_createdAt, Pagination.sortOrder)
        /\ resp.req.sortOrder \in {Str(s_asc), Str(s_desc)} =>
                Pagination.sortOrder = resp.req.sortOrder.v

C2_Witness ==
    /\ ListingAnswered
    /\ resp.req.sortBy = Str(<<"i","d">>)
    /\ resp.req.sortOrder = Str(s_asc)
    /\ Pagination.sortBy = s_createdAt
    /\ Len(Data) = 3
    /\ Data[1].createdAt < Data[3].createdAt

\* C3 (as claimed): in every answered listing whose sortOrder is not exactly
\* asc or desc (absent and other spellings such as ASC included), the echoed
\* sortOrder is desc and the rows come in descending order.
C3_SortOrderFallsBackExact ==
    (ListingAnswered /\ resp.req.sortOrder \notin {Str(s_asc), Str(s_desc)}) =>
        /\ Pagination.sortOrder = s_desc
        /\ SortedBy(Data, Pagination.sortBy, s_desc)

\* the direction a sortOrder value asks for once lower-cased
AskedDirection(p) ==
    IF Supplied(p) /\ ToLower(p.v) \in {s_asc, s_desc} THEN ToLower(p.v) ELSE s_desc

\* C3 (amended): in every answered listing, a sortOrder that is absent, empty
\* or whose lower-cased text is neither asc nor desc gives echoed sortOrder
\* desc and rows in descending order; a sortOrder whose lower-cased text is asc
\* or desc (ASC, Desc) is honoured as that direction and echoed lower-cased.
C3_SortOrderFallsBackLowerCased ==
    ListingAnswered =>
        /\ Pagination.sortOrder = AskedDirection(resp.req.sortOrder)
        /\ SortedBy(Data, Pagination.sortBy, AskedDirection(resp.req.sortOrder))
        /\ SortedBy(resp.ghost.ordered, Pagination.sortBy,
                    AskedDirection(resp.req.sortOrder))

C3_Witness ==
    /\ ListingAnswered
    /\ resp.req.sortOrder = Str(<<"A","S","C">>)
    /\ Pagination.sortOrder = s_asc
    /\ Len(Data) = 3
    /\ Data[1].createdAt < Data[3].createdAt

\* C4: in every answered listing data holds at most pageSize rows,
\* totalPages is the ceiling of totalItems / pageSize (0 when totalItems is
\* 0), and currentPage and pageSize are the page and limit asked for (1 and
\* 10 when not supplied).
C4_PaginationMath ==
    ListingAnswered =>
        /\ Len(Data) <= Pagination.pageSize
        /\ Pagination.totalPages * Pagination.pageSize >= Pagination.totalItems
        /\ (Pagination.totalPages - 1) * Pagination.pageSize < Pagination.totalItems
        /\ Pagination.totalItems = 0 => Pagination.totalPages = 0
        /\ WellFormed(resp.req.page) => Pagination.currentPage = Asked(resp.req.page, 1)
        /\ WellFormed(resp.req.limit) => Pagination.pageSize = Asked(resp.req.limit, 10)

C4_Witness ==
    /\ ListingAnswered
    /\ resp.req.page = Str(<<"2">>)
    /\ resp.req.limit = Str(<<"2">>)
    /\ Pagination.totalItems = 3
    /\ Pagination.totalPages = 2
    /\ Len(Data) = 1

\* the rows of an ordered collection at 0-based positions
\* [(page - 1) * limit, (page - 1) * limit + limit), as far as they exist
Window(ordered, page, limit) ==
    LET from == (page - 1) * limit
        n == IF Len(ordered) <= from THEN 0
             ELSE IF Len(ordered) - from < limit THEN Len(ordered) - from
             ELSE limit
    IN  [i \in 1..n |-> ordered[from + i]]

\* the quotient rounded up
Ceiling(a, b) == IF a % b = 0 THEN a \div b ELSE (a \div b) + 1

\* C5: in every answered listing data is exactly the window of page and limit
\* over the filtered collection in the requested order; a page beyond the
\* last one gives empty data with the totals of page 1; a limit at least the
\* number of matching rows gives all of them on page 1.
C5_PageWindow ==
    ListingAnswered =>
        LET matching == whereClause(resp.req, store)
            page == Pagination.currentPage
            limit == Pagination.pageSize
        IN  /\ \E ordered \in OrderBy(matching, Pagination.sortBy, Pagination.sortOrder) :
                    Data = Window(ordered, page, limit)
            /\ Pagination.totalItems = Cardinality(matching)
            /\ Pagination.totalPages = Ceiling(Cardinality(matching), limit)
            /\ (page - 1) * limit >= Cardinality(matching) => Data = << >>
            /\ (page = 1 /\ limit >= Cardinality(matching)) =>
                    /\ Len(Data) = Cardinality(matching)
                    /\ {Data[i] : i \in 1..Len(Data)} = matching

C5_Witness ==
    /\ ListingAnswered
    /\ Cardinality(store) = 3
    /\ NotSupplied(resp.req.search)
    /\ Pagination.currentPage = 2
    /\ Pagination.pageSize = 1
    /\ Len(Data) = 1
    /\ Pagination.totalItems = 3

\* C6 (as claimed): in every answered listing with a supplied search text, a
\* stored row is among those counted and returned exactly when the text
\* occurs, letters compared without regard to case, in its title, in one of
\* its characters or in one of its dialogues, the characters % and _ taken
\* literally.
C6_SearchIsSubstringMatch ==
    (ListingAnswered /\ Supplied(resp.req.search)
                     /\ NotSupplied(resp.req.page) /\ NotSupplied(resp.req.limit)) =>
        LET matching == {row \in store : MatchesSearch(row, resp.req.search.v)}
        IN  /\ {Data[i] : i \in 1..Len(Data)} = matching
            /\ Pagination.totalItems = Cardinality(matching)

C8_RandomOnEmpty ==
    resp.op = "getRandomScript" =>
        /\ ("count" \in DOMAIN resp.ghost /\ resp.ghost.count = 0) =>
                /\ resp.via = "next"
                /\ resp.err = AppError("No scripts available to choose from.", 404)
                /\ resp.status = 404
                /\ resp.body = [error |-> "No scripts available to choose from."]
                /\ resp.calls = <<"count">>
        /\ (resp.via = "res" /\ resp.status = 200) =>
                /\ "id" \in DOMAIN resp.body
                /\ "count" \in DOMAIN resp.ghost /\ resp.ghost.count > 0

C8_Witness ==
    /\ resp.op = "getRandomScript"
    /\ resp.ghost = [count |-> 0]
    /\ resp.status = 404
    /\ store = {}

\* C9: a random-multiple request with count = 0 is answered 200 with an
\* empty array and no store call, whatever the store holds and whatever
\* excludeIds is.
C9_CountZero ==
    /\ pc = "randomSample" => local.req.count # Str(<<"0">>)
    /\ (IsRandomMultiple /\ resp.req.count = Str(<<"0">>)) =>
            /\ resp.via = "res"
            /\ resp.status = 200
            /\ resp.body = << >>
            /\ resp.calls = << >>

C9_Witness ==
    /\ IsRandomMultiple
    /\ resp.req.count = Str(<<"0">>)
    /\ resp.req.excludeIds = Str(<<"1">>)
    /\ resp.status = 200
    /\ Cardinality(store) = 3

\* a supplied count that is not an integer, or is a negative integer
BadCount(p) == Supplied(p) /\ (~IntegerText(p.v) \/ IntegerValue(p.v) < 0)

\* C10 (as claimed): a random-multiple request whose count is supplied and is
\* not an integer, or is negative, ends as the 400 error 'Invalid count
\* parameter. Must be a positive integer.' with no store call; an absent count
\* is sampled as 3.
C10_InvalidCountRejected ==
    /\ pc = "randomSample" => ~BadCount(local.req.count)
    /\ (IsRandomMultiple /\ BadCount(resp.req.count)) =>
            ValidationError("Invalid count parameter. Must be a positive integer.")
    /\ (IsRandomMultiple /\ resp.req.count = Absent /\ resp.req.excludeIds = Absent
                         /\ resp.via = "res" /\ resp.status = 200) =>
            Len(resp.body) = Min(3, Cardinality(store))

-----------------------------------------------------------------------------
(* C11 .. C15 *)

\* a count the sampling accepts as claimed: left out, or an integer >= 1
ValidCount(p) == NotSupplied(p) \/ (Supplied(p) /\ IntegerText(p.v) /\ IntegerValue(p.v) >= 1)

\* the count such a request asks for
AskedCount(p) == Asked(p, 3)

\* C11: a random-multiple request with a valid count (or none) whose count
\* step finds the table empty is answered 404 with the body {message: 'No
\* scripts available in the database.'}, sent by the handler itself and not
\* by the error handler, after the count alone: no sampling query is issued.
C11_RandomMultipleOnEmpty ==
    /\ pc = "randomSample" => store # {}
    /\ (IsRandomMultiple /\ store = {} /\ ValidCount(resp.req.count)
                         /\ resp.req.excludeIds.k # "arr" /\ resp.err \notin DbErrors) =>
            /\ resp.via = "res"
            /\ resp.err = NoErr
            /\ resp.status = 404
            /\ resp.body = [message |-> "No scripts available in the database."]
            /\ resp.calls = <<"count">>

C11_Witness ==
    /\ IsRandomMultiple
    /\ store = {}
    /\ resp.req.count = Str(<<"2">>)
    /\ resp.req.excludeIds = Str(<<"1">>)
    /\ resp.status = 404

\* the ids a supplied excludeIds names: its comma-separated parts, trimmed,
\* the empty ones dropped
ExcludedIds(p) ==
    IF Supplied(p)
    THEN {Trim(part) : part \in Range(Split(p.v, ","))} \ {<< >>}
    ELSE {}

\* C12: an answered random-multiple request with a valid count >= 1 carries
\* at most count snippets, all of them stored and pairwise distinct, and none
\* whose id is named by excludeIds.
C12_SampleBoundedAndExcluding ==
    (IsRandomMultiple /\ resp.via = "res" /\ resp.status = 200
                      /\ ValidCount(resp.req.count)) =>
        /\ Len(resp.body) <= AskedCount(resp.req.count)
        /\ \A i \in 1..Len(resp.body) :
                /\ resp.body[i] \in store
                /\ resp.body[i].id \notin ExcludedIds(resp.req.excludeIds)
                /\ \A j \in 1..Len(resp.body) : i # j => resp.body[i] # resp.body[j]

C12_Witness ==
    /\ IsRandomMultiple
    /\ resp.status = 200
    /\ resp.req.count = Str(<<"2">>)
    /\ resp.req.excludeIds = Str(<<"1", ",", " ", "2">>)
    /\ Cardinality(store) = 3
    /\ Len(resp.body) = 1
    /\ resp.body[1].id = IdOf(3)

IsBatch == resp.op = "getScriptsByIds"

\* the body holds ids, a non-empty array of strings
ValidIds(body) ==
    /\ "ids" \in DOMAIN body
    /\ IsArr(body.ids)
    /\ body.ids.items # << >>
    /\ \A i \in 1..Len(body.ids.items) : IsStr(body.ids.items[i])

\* the ids such a body asks for
AskedIds(body) == {body.ids.items[i].v : i \in 1..Len(body.ids.items)}

\* C13: a batch request with a valid ids list, unless the store fails, is
\* answered 200 with exactly the stored snippets whose id occurs in ids, each
\* once; ids that are not stored add nothing and raise no error, and a list
\* naming no stored id gives the empty list.
C13_BatchReturnsFoundSubset ==
    (IsBatch /\ ValidIds(resp.req) /\ resp.err \notin DbErrors) =>
        LET found == {r \in store : r.id \in AskedIds(resp.req)}
        IN  /\ resp.via = "res"
            /\ resp.status = 200
            /\ {resp.body[i] : i \in 1..Len(resp.body)} = found
            /\ Len(resp.body) = Cardinality(found)
            /\ found = {} => resp.body = << >>

C13_Witness ==
    /\ IsBatch
    /\ resp.req = [ids |-> Arr(<<Str(IdOf(2)), Str(IdOf(9))>>)]
    /\ resp.status = 200
    /\ Cardinality(store) = 3
    /\ Len(resp.body) = 1
    /\ resp.body[1].id = IdOf(2)

\* the statements the request in flight has built, or the completed one did
IssuedSql ==
    IF pc = "listCount" THEN local.sql
    ELSE IF "sql" \in DOMAIN resp.ghost THEN resp.ghost.sql
    ELSE << >>

\* the literal SQL text of the templates in the controller
SourceSql ==
    { "SELECT * FROM script_snips", "SELECT COUNT(*) FROM script_snips", "WHERE 1=1",
      "WHERE title ILIKE",
      "OR EXISTS (SELECT 1 FROM unnest(characters) AS char WHERE char ILIKE",
      ") OR EXISTS (SELECT 1 FROM jsonb_array_elements(lines) AS line WHERE line->>'dialogue' ILIKE",
      ")", "ORDER BY LOWER(\"title\")", "ORDER BY \"createdAt\"", "LIMIT", "OFFSET", ";",
      "WHERE id NOT IN (", ",", "ORDER BY RANDOM() LIMIT" }

IsTextParam(piece) == piece.kind = "textParam"
IsIntParam(piece) == piece.kind = "intParam"
TextParams(stmt) ==
    LET ps == SelectSeq(stmt, IsTextParam) IN [i \in 1..Len(ps) |-> ps[i].chars]
IntParams(stmt) ==
    LET ps == SelectSeq(stmt, IsIntParam) IN [i \in 1..Len(ps) |-> ps[i].n]

\* every piece of the statement that is not a bound parameter is literal
\* text of the source, or a spliced direction that is asc or desc
OnlyDirectionSpliced(stmt) ==
    \A i \in 1..Len(stmt) :
        /\ stmt[i].kind = "sql" => stmt[i].text \in SourceSql
        /\ stmt[i].kind = "raw" => stmt[i].chars \in {s_asc, s_desc}

\* C14: in every statement a listing or a random-multiple request builds,
\* whatever the request, the search term, the limit, the offset and the
\* excluded ids are bound parameters, and the only text spliced into the
\* statement is the sort direction, which is then asc or desc.
C14_OnlyBoundParameters ==
    /\ \A s \in 1..Len(IssuedSql) : OnlyDirectionSpliced(IssuedSql[s])
    /\ (IsListing /\ Len(IssuedSql) > 0) =>
            LET pattern == <<"%">> \o ToStr(resp.req.search) \o <<"%">>
                bound == IF Truthy(resp.req.search)
                         THEN <<pattern, pattern, pattern>> ELSE << >>
            IN  /\ Len(IssuedSql) = 2
                /\ TextParams(IssuedSql[1]) = bound
                /\ TextParams(IssuedSql[2]) = bound
                /\ Len(IntParams(IssuedSql[1])) = 2
                /\ IntParams(IssuedSql[2]) = << >>
                /\ ListingAnswered =>
                        IntParams(IssuedSql[1]) =
                            << Pagination.pageSize,
                               (Pagination.currentPage - 1) * Pagination.pageSize >>
    /\ (IsRandomMultiple /\ Len(IssuedSql) > 0) =>
            /\ Len(IssuedSql) = 1
            /\ Range(TextParams(IssuedSql[1])) = ExcludedIds(resp.req.excludeIds)
            /\ Len(IntParams(IssuedSql[1])) = 1

C14_Witness ==
    /\ ListingAnswered
    /\ resp.req.sortOrder = Str(<<"u","p">>)
    /\ resp.req.sortBy = Str(s_title)
    /\ RawSql(s_desc) \in Range(IssuedSql[1])

\* the step that runs the page query of a listing request equal to the one
\* answered last, on the table both queries of that one ran on
ListingRepeated ==
    /\ ListingAnswered
    /\ pc = "idle" /\ pc' = "listCount"
    /\ local'.req = resp.req
    /\ resp.ghost.dataStore = store /\ resp.ghost.countStore = store
    /\ local'.dataStore = store

\* C15 (as claimed): a listing request repeated with no write in between
\* gets the rows of the first answer again, in the same order, also when
\* matching rows share the sort key.
C15_RepeatedListingSameData ==
    [][ListingRepeated => local'.scripts = Data]_vars

-----------------------------------------------------------------------------
(* C16 .. C20 *)

NoDigit(s) == \A i \in 1..Len(s) : ~IsDigit(s[i])

\* a supplied page or limit that spells an integer <= 0 or holds no digit
PlainlyBad(p) ==
    Supplied(p) /\ \/ IntegerText(p.v) /\ IntegerValue(p.v) <= 0
                   \/ NoDigit(p.v)

paginationMessage ==
    "Invalid pagination parameters. Page and limit must be positive integers."

\* sortOrder sent at most once (sent twice it arrives as an array, and
\* toLowerCase throws before page and limit are looked at)
SortOrderSingle == ~IsArr(resp.req.sortOrder)

idsMessage == "Invalid input: 'ids' must be a non-empty array of strings."

\* C17: a batch request whose ids is missing, not an array, an empty array or
\* an array with an element that is not a string ends as the 400 validation
\* error with the message "Invalid input: 'ids' must be a non-empty array of
\* strings.", and no store method is called for it.
C17_InvalidIdsRejected ==
    (IsBatch /\ ~ValidIds(resp.req)) => ValidationError(idsMessage)

\* each of the four ways to be invalid has been refused
MissingIds == IsBatch /\ "ids" \notin DOMAIN resp.req
NotAnArrayIds == IsBatch /\ "ids" \in DOMAIN resp.req /\ ~IsArr(resp.req.ids)
EmptyIds == IsBatch /\ "ids" \in DOMAIN resp.req /\ IsArr(resp.req.ids)
                /\ resp.req.ids.items = << >>
NonStringIds == IsBatch /\ "ids" \in DOMAIN resp.req /\ IsArr(resp.req.ids)
                    /\ \E i \in 1..Len(resp.req.ids.items) : ~IsStr(resp.req.ids.items[i])

C17_Witness == NonStringIds /\ ValidationError(idsMessage)
C17_WitnessEmpty == EmptyIds /\ ValidationError(idsMessage)
C17_WitnessMissing == MissingIds /\ ValidationError(idsMessage)
C17_WitnessNotArray == NotAnArrayIds /\ ValidationError(idsMessage)

IsHandled == resp.op = "errorHandler"
Handled == resp.req

\* the classes of the claim, in its order of precedence
IsJsonSyntaxError(e) == e.type = "SyntaxError" /\ e.statusCode = 400 /\ e.code = "body"
IsZodError(e) == e.type = "ZodError"
IsPrismaKnown(e) == e.type = "PrismaClientKnownRequestError"
IsAppError(e) == e.type = "AppError"
IsOtherError(e) ==
    /\ e.type \in {"Error", "TypeError", "SyntaxError"}
    /\ ~IsJsonSyntaxError(e)
IsNonError(e) == e.type = "nonError"

\* the details of a ZodError: one entry per issue, in order, with the
\* issue's message and its path as text (lines[0].character as
\* lines.0.character)
DetailsFollowIssues(details, issues) ==
    /\ Len(details) = Len(issues)
    /\ \A i \in 1..Len(issues) :
        /\ details[i].message = issues[i].message
        /\ issues[i].path = << >> => details[i].path = ""
        /\ issues[i].path = <<Key("title")>> => details[i].path = "title"
        /\ issues[i].path = <<Key("characters"), Index(1)>>
                => details[i].path = "characters.1"
        /\ issues[i].path = <<Key("lines"), Index(0), Key("character")>>
                => details[i].path = "lines.0.character"

\* C18: errorHandler answers each value by its class: a body-parser JSON
\* SyntaxError with 400 'Invalid JSON payload received'; a ZodError with 400
\* 'Invalid input data' and details; a Prisma known request error with 404
\* 'Resource not found' for code P2025 and 500 'Database request failed' for
\* any other code; an AppError with its own statusCode and message; any other
\* Error with 500 and its message ('An error occurred' when the message is
\* empty); a value that is no Error with 500 'An unexpected internal server
\* error occurred'. It sends the answer itself and does not call next.
C18_ErrorHandlerPrecedence ==
    IsHandled =>
        /\ resp.via = "res"
        /\ IsJsonSyntaxError(Handled) =>
                /\ resp.status = 400
                /\ resp.body.error = "Invalid JSON payload received"
        /\ IsZodError(Handled) =>
                /\ resp.status = 400
                /\ resp.body.error = "Invalid input data"
                /\ DetailsFollowIssues(resp.body.details, Handled.issues)
        /\ (IsPrismaKnown(Handled) /\ Handled.code = "P2025") =>
                /\ resp.status = 404
                /\ resp.body = [error |-> "Resource not found"]
        /\ (IsPrismaKnown(Handled) /\ Handled.code # "P2025") =>
                /\ resp.status = 500
                /\ resp.body.error = "Database request failed"
        /\ IsAppError(Handled) =>
                /\ resp.status = Handled.statusCode
                /\ resp.body = [error |-> Handled.message]
        /\ IsOtherError(Handled) =>
                /\ resp.status = 500
                /\ resp.body = [error |-> IF Handled.message = "" THEN "An error occurred"
                                          ELSE Handled.message]
        /\ IsNonError(Handled) =>
                /\ resp.status = 500
                /\ resp.body = [error |-> "An unexpected internal server error occurred"]

\* a Prisma error with another code than P2025 has been answered 500
C18_Witness ==
    /\ IsHandled
    /\ IsPrismaKnown(Handled) /\ Handled.code = "P2002"
    /\ resp.status = 500
    /\ resp.body.error = "Database request failed"

ReadOps ==
    {"getAllScripts", "getRandomScript", "getRandomScripts", "getScriptsByIds",
     "getScriptById"}

\* a step of one of the five read handlers: it suspends on the store or
\* resumes (pc moves), or it runs from the idle client to the handler's
\* outcome (a write leaves pc alone and, from the idle client, leaves a
\* write's outcome)
ReadStep ==
    \/ pc' # pc
    \/ pc = "idle" /\ resp'.op \in ReadOps

\* C19: no step of getAllScripts, getRandomScript, getRandomScripts,
\* getScriptsByIds or getScriptById changes the table: whatever the
\* parameters and the outcome, the snippets and all their fields are after the
\* step what they were before it.
C19_ReadsLeaveStoreUnchanged ==
    [][ReadStep => store' = store]_vars

\* a stored snippet has been read by id and is still stored, unchanged
C19_Witness ==
    /\ resp.op = "getScriptById"
    /\ resp.via = "res" /\ resp.status = 200
    /\ resp.body \in store

NonEmptyText(v) == IsStr(v) /\ Len(v.v) >= 1

\* an array whose entries are all non-empty strings
CharacterNames(v) ==
    IsArr(v) /\ \A i \in 1..Len(v.items) : NonEmptyText(v.items[i])

\* an object with a non-empty character and a non-empty dialogue
GoodLine(l) ==
    /\ IsObj(l)
    /\ "character" \in DOMAIN l /\ NonEmptyText(l.character)
    /\ "dialogue" \in DOMAIN l /\ NonEmptyText(l.dialogue)

GoodLines(v) == IsArr(v) /\ \A i \in 1..Len(v.items) : GoodLine(v.items[i])

TitleOk(body) == "title" \in DOMAIN body => IsStr(body.title)

\* the payload createScript accepts: at least one character and one line,
\* every character name, line character and line dialogue non-empty
CreateAcceptable(body) ==
    /\ TitleOk(body)
    /\ "characters" \in DOMAIN body /\ CharacterNames(body.characters)
    /\ Len(body.characters.items) >= 1
    /\ "lines" \in DOMAIN body /\ GoodLines(body.lines)
    /\ Len(body.lines.items) >= 1

\* the payload updateScript accepts: at least one of title, characters,
\* lines supplied, each supplied one of its type; arrays may be empty
UpdateAcceptable(body) ==
    /\ DOMAIN body \cap {"title", "characters", "lines"} # {}
    /\ TitleOk(body)
    /\ "characters" \in DOMAIN body => CharacterNames(body.characters)
    /\ "lines" \in DOMAIN body => GoodLines(body.lines)

\* the step ends createScript or updateScript for the payload
CreateEnds == resp'.op = "createScript"
UpdateEnds == resp'.op = "updateScript"

\* the step's request is refused as invalid input, with no store call and
\* the table left as it was
RefusedAsInvalid ==
    /\ resp'.via = "next"
    /\ resp'.err.type = "ZodError"
    /\ resp'.status = 400
    /\ resp'.body.error = "Invalid input data"
    /\ resp'.calls = << >>
    /\ store' = store

C20_WitnessEmptyArray ==
    /\ resp.op = "updateScript"
    /\ resp.req.body = [characters |-> Arr(<< >>)]
    /\ resp.status = 200
    /\ resp.body.characters = << >>

\* a create with an empty dialogue has been refused
C20_WitnessCreate ==
    /\ resp.op = "createScript"
    /\ resp.req = [characters |-> oneCharacter, lines |-> Arr(<<aLine, noDialogue>>)]
    /\ resp.status = 400
    /\ resp.calls = << >>

-----------------------------------------------------------------------------
(* C21 .. C30 *)

\* no stored snippet has the id
Missing(id) == \A r \in store : r.id # id

\* the step's handler got an error from the store client's connection
StoreFailed == resp'.via = "next" /\ resp'.err \in DbErrors

\* the step's request is answered 404 'Resource not found' by the error
\* handler and the table is what it was
NotFoundAnswer ==
    /\ resp'.via = "next"
    /\ resp'.status = 404
    /\ resp'.body = [error |-> "Resource not found"]
    /\ store' = store

\* C21: an update (with a payload the schema accepts) or a delete for an id
\* no stored snippet has is answered 404 {error: 'Resource not found'} and
\* the table stays as it was; getScriptById for such an id is answered 404
\* {error: 'Script not found'}. (The store answering the call is assumed.)
C21_UnknownIdNotFound ==
    [][ pc = "idle" =>
          /\ (resp'.op = "updateScript" /\ Missing(resp'.req.id)
                 /\ UpdateAcceptable(resp'.req.body) /\ ~StoreFailed)
              => NotFoundAnswer
          /\ (resp'.op = "deleteScript" /\ Missing(resp'.req) /\ ~StoreFailed)
              => NotFoundAnswer
          /\ (resp'.op = "getScriptById" /\ Missing(resp'.req) /\ ~StoreFailed)
              => /\ resp'.via = "res"
                 /\ resp'.status = 404
                 /\ resp'.body = [error |-> "Script not found"]
                 /\ store' = store
      ]_vars

\* a delete for an id that is not stored has been answered 404 while another
\* snippet is stored
C21_Witness ==
    /\ resp.op = "deleteScript"
    /\ Missing(resp.req) /\ store # {}
    /\ resp.status = 404
    /\ resp.body = [error |-> "Resource not found"]

C21_WitnessUpdate ==
    /\ resp.op = "updateScript"
    /\ Missing(resp.req.id) /\ store # {}
    /\ resp.status = 404
    /\ resp.body = [error |-> "Resource not found"]

C21_WitnessRead ==
    /\ resp.op = "getScriptById"
    /\ Missing(resp.req) /\ store # {}
    /\ resp.status = 404
    /\ resp.body = [error |-> "Script not found"]

\* the ids handed out so far whose snippet is gone: a snippet leaves the
\* table only by a delete answered 204
DeletedIds == {IdOf(n) : n \in 1..nextId} \ {r.id : r \in store}

HasId(rows, id) == \E i \in 1..Len(rows) : rows[i].id = id

\* the rows the step's query returned do not hold the id
NotReturned(id) ==
    /\ (pc = "idle" /\ pc' = "listCount") => ~HasId(local'.scripts, id)
    /\ (pc = "idle" /\ resp'.op = "getScriptsByIds" /\ resp'.status = 200)
        => ~HasId(resp'.body, id)
    /\ (pc = "idle" /\ resp'.op = "getScriptById" /\ resp'.status = 200)
        => resp'.body.id # id
    /\ (pc = "randomFetch" /\ resp'.status = 200) => resp'.body.id # id
    /\ (pc = "randomSample" /\ resp'.status = 200) => ~HasId(resp'.body, id)

Texts(arr) == [i \in 1..Len(arr.items) |-> arr.items[i].v]

\* the lines a body's array of line objects spells
LineTexts(arr) ==
    [i \in 1..Len(arr.items) |->
        [character |-> arr.items[i].character.v, dialogue |-> arr.items[i].dialogue.v]]

\* new is old with exactly the supplied ones of title, characters, lines
\* replaced
OnlySuppliedChanged(old, new, body) ==
    /\ new.id = old.id
    /\ new.createdAt = old.createdAt
    /\ new.title = IF "title" \in DOMAIN body THEN body.title.v ELSE old.title
    /\ new.characters =
            IF "characters" \in DOMAIN body THEN Texts(body.characters) ELSE old.characters
    /\ new.lines = IF "lines" \in DOMAIN body THEN LineTexts(body.lines) ELSE old.lines

\* the step ends an update with 200
UpdateDone == pc = "idle" /\ resp'.op = "updateScript" /\ resp'.status = 200

\* C23: no create, update or delete changes the id or the createdAt of a
\* snippet that stays stored; an update answered 200 replaces, in the snippet
\* with the request's id, exactly the supplied ones of title, characters and
\* lines (an id, createdAt or unknown key in the body changes nothing) and
\* leaves every other snippet as it was.
C23_UpdateChangesOnlySupplied ==
    [][ /\ \A r \in store : \A n \in store' :
              n.id = r.id => n.createdAt = r.createdAt
        /\ \A n, m \in store' : n.id = m.id => n = m
        /\ UpdateDone =>
              \E old \in store :
                /\ old.id = resp'.req.id
                /\ resp'.body \in store'
                /\ OnlySuppliedChanged(old, resp'.body, resp'.req.body)
                /\ store' \ {resp'.body} = store \ {old}
      ]_vars

\* an update whose body also carried an id and a createdAt was answered 200
\* with the row's own id, while a second snippet is stored
C23_Witness ==
    /\ resp.op = "updateScript" /\ resp.status = 200
    /\ "id" \in DOMAIN resp.req.body /\ "createdAt" \in DOMAIN resp.req.body
    /\ resp.req.body.id.v # resp.req.id
    /\ resp.body.id = resp.req.id
    /\ Cardinality(store) = 2

IsPost == resp.op \in {"createScript", "createScriptLimiter"}

C24_WitnessTwentyFirst ==
    /\ hits = 21
    /\ resp.op = "createScript"
    /\ resp.calls = <<"create">>

\* the rows of a table the listing's filter keeps
Matching(rows) == whereClause(resp.req, rows)

\* the table as the page query and as the count query of the answered
\* listing read it
DataStore == resp.ghost.dataStore
CountStore == resp.ghost.countStore

\* C26 (as claimed): in every interleaving of a listing with creates, updates
\* and deletes, totalItems of the answer is the number of rows matching the
\* filter in the table the page was read from: no write takes effect between
\* the page query and the count query.
C26_CountFromPageSnapshot ==
    ListingAnswered =>
        /\ Pagination.totalItems = Cardinality(Matching(DataStore))
        /\ CountStore = DataStore

\* C26 (amended): the page query and the count query are issued together, in
\* that order, as one $transaction; the page is a window of the rows matching
\* the filter when the page query ran, totalItems is the number of rows
\* matching the same filter when the count query ran, and totalPages follows
\* from that totalItems. Writes committed between the two statements are
\* counted, so totalItems need not be the count of the table the page came
\* from.
C26_CountAtCountQuery ==
    ListingAnswered =>
        /\ resp.calls = ListCalls
        /\ resp.ghost.sql = ListSql(resp.req)
        /\ Pagination.totalItems = Cardinality(Matching(CountStore))
        /\ Pagination.totalPages =
                totalPagesOf(Cardinality(Matching(CountStore)), Pagination.pageSize)
        /\ \A i \in 1..Len(Data) : Data[i] \in Matching(DataStore)
        /\ Len(Data) <= Pagination.pageSize

\* a listing answered after a row matching its filter was created between
\* its two queries: one row on the page, two counted
C26_Witness ==
    /\ ListingAnswered
    /\ resp.req.search = Str(<<"a">>)
    /\ Cardinality(Matching(DataStore)) = 1
    /\ Len(Data) = 1
    /\ Pagination.totalItems = 2

\* the single random pick has run its fetch: the count it saw, the offset it
\* drew and the table as findFirst read it
RandomFetched == resp.op = "getRandomScript" /\ "fetchStore" \in DOMAIN resp.ghost
SeenCount == resp.ghost.count
Offset == resp.ghost.randomIndex
FetchStore == resp.ghost.fetchStore

\* C27: in every interleaving of getRandomScript with creates and deletes,
\* once the count step has seen N > 0 the offset is drawn in [0, N) and the
\* fetch ends in one of two ways: 200 with one snippet the table held at the
\* fetch, or, when the table has no row at that offset at the fetch, the 500
\* error 'Failed to retrieve a random script.'; it is never 200 without a
\* snippet and never 404. (The store answering the calls is assumed.)
C27_RandomPickUnderWrites ==
    /\ pc = "randomFetch" =>
            local.count > 0 /\ local.randomIndex \in 0..(local.count - 1)
    /\ (resp.op = "getRandomScript" /\ resp.status = 404) =>
            resp.ghost = [count |-> 0]
    /\ RandomFetched =>
            /\ SeenCount > 0
            /\ Offset \in 0..(SeenCount - 1)
            /\ resp.calls = <<"count", "findFirst">>
            /\ IF Offset < Cardinality(FetchStore)
               THEN /\ resp.via = "res"
                    /\ resp.status = 200
                    /\ resp.body \in FetchStore
               ELSE /\ resp.via = "next"
                    /\ resp.err = AppError("Failed to retrieve a random script.", 500)
                    /\ resp.status = 500
                    /\ resp.body = [error |-> "Failed to retrieve a random script."]

\* the count saw two rows, a delete ran before the fetch, the offset 1 drawn
\* is past the one row left: 500
C27_Witness ==
    /\ RandomFetched
    /\ SeenCount = 2
    /\ Offset = 1
    /\ Cardinality(FetchStore) = 1
    /\ resp.status = 500

\* the count saw one row, a second was created before the fetch, and the
\* pick is answered 200 with a row of the table of the fetch
C27_WitnessPicked ==
    /\ RandomFetched
    /\ SeenCount = 1
    /\ Cardinality(FetchStore) = 2
    /\ resp.status = 200
    /\ resp.body \in FetchStore

\* a random-multiple request the claim is about: a valid count (or none) and
\* an excludeIds given once or not at all
SamplingAsked ==
    /\ IsRandomMultiple
    /\ ValidCount(resp.req.count)
    /\ resp.req.excludeIds.k # "arr"

\* its count step found rows
CountedSome == "totalCount" \in DOMAIN resp.ghost /\ resp.ghost.totalCount > 0

\* the table as the sampling query read it, and its rows excludeIds leaves
SampleStore == resp.ghost.sampleStore
Eligible == {r \in SampleStore : r.id \notin ExcludedIds(resp.req.excludeIds)}

\* C28: a random-multiple request with a valid count >= 1 whose count step
\* finds N > 0 rows is answered 200 with pairwise distinct stored snippets,
\* none of them excluded, exactly min(count, N, number of stored snippets
\* excludeIds leaves at the sampling query) of them: the clamp is against N,
\* not against N less the excluded, and a list left empty by the exclusion
\* or by deletes after the count is still a 200. (The store answering the
\* calls is assumed.)
C28_SampleSize ==
    /\ (SamplingAsked /\ resp.err \notin DbErrors /\ resp.status # 200) =>
            resp.ghost = [totalCount |-> 0]
    /\ (SamplingAsked /\ CountedSome) =>
            /\ resp.via = "res"
            /\ resp.status = 200
            /\ resp.ghost.limitCount =
                    Min(AskedCount(resp.req.count), resp.ghost.totalCount)
            /\ Len(resp.body) =
                    Min(Min(AskedCount(resp.req.count), resp.ghost.totalCount),
                        Cardinality(Eligible))
            /\ \A i \in 1..Len(resp.body) :
                    /\ resp.body[i] \in Eligible
                    /\ \A j \in 1..Len(resp.body) : i # j => resp.body[i] # resp.body[j]

\* excludeIds names every stored id: 200 with an empty list
C28_Witness ==
    /\ SamplingAsked /\ CountedSome
    /\ Cardinality(SampleStore) = 2
    /\ Eligible = {}
    /\ resp.status = 200
    /\ resp.body = << >>

\* the count found rows and deletes emptied the table before the sampling
\* query: 200 with an empty list
C28_WitnessEmptied ==
    /\ SamplingAsked /\ CountedSome
    /\ SampleStore = {}
    /\ resp.status = 200
    /\ resp.body = << >>

\* the count found one row, a second was created before the sampling query,
\* and the list holds one snippet: the clamp is against the N of the count
C28_WitnessClamped ==
    /\ SamplingAsked /\ CountedSome
    /\ resp.req.count = Absent
    /\ resp.ghost.totalCount = 1
    /\ Cardinality(Eligible) = 2
    /\ Len(resp.body) = 1

\* the request ended with the store's error: handler op, after the calls
StoreErrorFrom(op, calls) ==
    /\ resp.op = op
    /\ resp.calls = calls
    /\ resp.err \in DbErrors
    /\ resp.via = "next"

\* C29: when a store call of a handler fails (create, the listing
\* transaction, findUnique, count, findFirst, the sampling query, findMany,
\* update, delete), the handler hands that error, as it is, to next and
\* sends nothing itself: the answer is the one errorHandler makes of that
\* error, no handler ever sends a 5xx of its own, and the only other 500 is
\* the random pick's own 'Failed to retrieve a random script.'.
C29_StoreErrorsPassedOn ==
    /\ resp.err \in DbErrors =>
            /\ resp.via = "next"
            /\ Len(resp.calls) > 0
            /\ resp.status = errorHandler(resp.err).status
            /\ resp.body = errorHandler(resp.err).body
            /\ resp.status = 500
    /\ resp.via = "res" =>
            /\ resp.err = NoErr
            /\ resp.status \in {200, 201, 204, 404}
    /\ resp.status >= 500 =>
            /\ resp.via = "next"
            /\ \/ resp.err \in DbErrors
               \/ resp.err = AppError("Failed to retrieve a random script.", 500)

\* the listing's transaction failed after its page query had run
C29_Witness ==
    /\ StoreErrorFrom("getAllScripts", ListCalls)
    /\ resp.status = 500
    /\ resp.body = [error |-> "Database connection lost"]

C29_WitnessCreate == StoreErrorFrom("createScript", <<"create">>)
C29_WitnessUpdate == StoreErrorFrom("updateScript", <<"update">>)
C29_WitnessDelete == StoreErrorFrom("deleteScript", <<"delete">>)
C29_WitnessFindUnique == StoreErrorFrom("getScriptById", <<"findUnique">>)
C29_WitnessFindMany == StoreErrorFrom("getScriptsByIds", <<"findMany">>)
C29_WitnessCount == StoreErrorFrom("getRandomScript", <<"count">>)
C29_WitnessFindFirst == StoreErrorFrom("getRandomScript", <<"count", "findFirst">>)
C29_WitnessSampling == StoreErrorFrom("getRandomScripts", <<"count", "$queryRaw">>)

\* a handler has run for the observed client
Invoked == resp.op # "none"

\* C30 (as claimed): every invocation of a handler, whatever the shape of
\* its query parameters and body, ends with exactly one outcome: the handler
\* sent one response, or it called next(error) once; no exception leaves the
\* handler with the request unanswered.
C30_ExactlyOneOutcome ==
    Invoked =>
        /\ resp.via \in {"res", "next"}
        /\ resp.via = "res" => resp.err = NoErr /\ resp.status > 0
        /\ resp.via = "next" => resp.err # NoErr /\ resp.status > 0

=============================================================================
